---------------------------- MODULE Spec2Model ----------------------------
(***************************************************************************)
(* A model of ssh_clipboard's remote side: the wire codec and framing      *)
(* (src/src/framing.rs, src/src/protocol.rs), the per-user daemon          *)
(* (src/src/daemon.rs) and the one-shot proxy (src/src/proxy.rs).          *)
(*                                                                         *)
(* Bytes are integers 0..255, byte strings are sequences of bytes.  Rust   *)
(* Strings that travel on the wire (content types) are their UTF-8 bytes;  *)
(* error messages, which only the daemon and the proxy build, are TLA+     *)
(* strings.                                                                *)
(***************************************************************************)
EXTENDS Integers, Sequences, FiniteSets, TLC

(***************************************************************************)
(* Bounds of the model.                                                    *)
(***************************************************************************)
\* Connection slots the daemon serves at the same time.
MaxConns == 2
\* Connections accepted in one run of the daemon.
MaxAccepts == 3
\* The daemon's --max-size, kept small so that a value can reach it.
MaxSize == 32
\* Library calls: the longest payload framed, the longest garbage before a
\* frame, and the largest scan budget.
MaxPayload == 3
MaxGarbage == 4
MaxScan == 5
\* Daemon processes started on one socket path, and proxy runs with
\* --autostart-daemon that connect to it.
MaxDaemons == 2
MaxClients == 2
\* Menu clicks and hotkey presses that reach the agent's event loop.
MaxTriggers == 3
\* Runs of setup-agent on one machine.
MaxRuns == 2

(***************************************************************************)
(* protocol.rs: constants.                                                 *)
(***************************************************************************)
\* b"SCB1"
MAGIC == <<83, 67, 66, 49>>
VERSION == 2
\* "text/plain; charset=utf-8"
CONTENT_TYPE_TEXT ==
    <<116, 101, 120, 116, 47, 112, 108, 97, 105, 110, 59, 32, 99, 104, 97,
      114, 115, 101, 116, 61, 117, 116, 102, 45, 56>>
\* "image/png"
CONTENT_TYPE_PNG == <<105, 109, 97, 103, 101, 47, 112, 110, 103>>
RESPONSE_OVERHEAD == 1024
\* 10 * 1024 * 1024
DEFAULT_MAX_SIZE == 10485760

(***************************************************************************)
(* Byte-string helpers.                                                    *)
(***************************************************************************)
Pow256(k) == IF k = 0 THEN 1 ELSE IF k = 1 THEN 256 ELSE IF k = 2 THEN 65536
             ELSE 16777216

\* n.to_le_bytes() truncated to k bytes (k <= 4).
ToLeBytes(n, k) == [i \in 1..k |-> (n \div Pow256(i - 1)) % 256]

RECURSIVE FromLeBytes(_)
\* uN::from_le_bytes
FromLeBytes(bs) ==
    IF bs = <<>> THEN 0 ELSE Head(bs) + 256 * FromLeBytes(Tail(bs))

Take(s, n) == SubSeq(s, 1, n)
Drop(s, n) == SubSeq(s, n + 1, Len(s))
Rep(b, n) == [i \in 1..n |-> b]

(***************************************************************************)
(* The texts of the messages, as the UTF-8 bytes of the Rust Strings.       *)
(***************************************************************************)
\* "invalid content type"
MSG_INVALID_CONTENT_TYPE ==
    <<105, 110, 118, 97, 108, 105, 100, 32, 99, 111, 110, 116, 101, 110,
      116, 32, 116, 121, 112, 101>>
\* "invalid utf-8"
MSG_INVALID_UTF8 ==
    <<105, 110, 118, 97, 108, 105, 100, 32, 117, 116, 102, 45, 56>>
\* "payload too large"
MSG_PAYLOAD_TOO_LARGE ==
    <<112, 97, 121, 108, 111, 97, 100, 32, 116, 111, 111, 32, 108, 97, 114,
      103, 101>>
\* "invalid framing: "
MSG_INVALID_FRAMING ==
    <<105, 110, 118, 97, 108, 105, 100, 32, 102, 114, 97, 109, 105, 110,
      103, 58, 32>>
\* "invalid magic"
MSG_INVALID_MAGIC ==
    <<105, 110, 118, 97, 108, 105, 100, 32, 109, 97, 103, 105, 99>>
\* "magic not found within scan limit"
MSG_MAGIC_NOT_FOUND ==
    <<109, 97, 103, 105, 99, 32, 110, 111, 116, 32, 102, 111, 117, 110,
      100, 32, 119, 105, 116, 104, 105, 110, 32, 115, 99, 97, 110, 32, 108,
      105, 109, 105, 116>>
\* "unsupported version "
MSG_UNSUPPORTED_VERSION ==
    <<117, 110, 115, 117, 112, 112, 111, 114, 116, 101, 100, 32, 118, 101,
      114, 115, 105, 111, 110, 32>>
\* "version mismatch: "
MSG_VERSION_MISMATCH ==
    <<118, 101, 114, 115, 105, 111, 110, 32, 109, 105, 115, 109, 97, 116,
      99, 104, 58, 32>>
\* "payload too large: "
MSG_PAYLOAD_TOO_LARGE_N ==
    <<112, 97, 121, 108, 111, 97, 100, 32, 116, 111, 111, 32, 108, 97, 114,
      103, 101, 58, 32>>
\* " bytes"
MSG_BYTES ==
    <<32, 98, 121, 116, 101, 115>>
\* "framing read error: "
MSG_FRAMING_READ_ERROR ==
    <<102, 114, 97, 109, 105, 110, 103, 32, 114, 101, 97, 100, 32, 101,
      114, 114, 111, 114, 58, 32>>
\* "early eof"
MSG_EARLY_EOF ==
    <<101, 97, 114, 108, 121, 32, 101, 111, 102>>
\* "read timeout"
MSG_READ_TIMEOUT ==
    <<114, 101, 97, 100, 32, 116, 105, 109, 101, 111, 117, 116>>
\* "decode error: "
MSG_DECODE_ERROR ==
    <<100, 101, 99, 111, 100, 101, 32, 101, 114, 114, 111, 114, 58, 32>>
\* "peer credential check failed"
MSG_PEER_CHECK_FAILED ==
    <<112, 101, 101, 114, 32, 99, 114, 101, 100, 101, 110, 116, 105, 97,
      108, 32, 99, 104, 101, 99, 107, 32, 102, 97, 105, 108, 101, 100>>
\* "peer uid mismatch (expected "
MSG_PEER_UID_MISMATCH ==
    <<112, 101, 101, 114, 32, 117, 105, 100, 32, 109, 105, 115, 109, 97,
      116, 99, 104, 32, 40, 101, 120, 112, 101, 99, 116, 101, 100, 32>>
\* ", got "
MSG_GOT ==
    <<44, 32, 103, 111, 116, 32>>

\* "daemon connect timed out"
MSG_CONNECT_TIMED_OUT ==
    <<100, 97, 101, 109, 111, 110, 32, 99, 111, 110, 110, 101, 99, 116, 32,
      116, 105, 109, 101, 100, 32, 111, 117, 116>>
\* "daemon autostart failed: "
MSG_AUTOSTART_FAILED ==
    <<100, 97, 101, 109, 111, 110, 32, 97, 117, 116, 111, 115, 116, 97,
      114, 116, 32, 102, 97, 105, 108, 101, 100, 58, 32>>
\* "daemon not running or socket unavailable at "
MSG_NOT_RUNNING ==
    <<100, 97, 101, 109, 111, 110, 32, 110, 111, 116, 32, 114, 117, 110,
      110, 105, 110, 103, 32, 111, 114, 32, 115, 111, 99, 107, 101, 116,
      32, 117, 110, 97, 118, 97, 105, 108, 97, 98, 108, 101, 32, 97, 116,
      32>>
\* The socket path of the run and the texts of the OS errors, which the model
\* does not vary: "/tmp/d.sock", "Connection refused (os error 111)" and
\* "No such file or directory (os error 2)"
SOCKET_PATH ==
    <<47, 116, 109, 112, 47, 100, 46, 115, 111, 99, 107>>
MSG_CONNECT_REFUSED ==
    <<67, 111, 110, 110, 101, 99, 116, 105, 111, 110, 32, 114, 101, 102,
      117, 115, 101, 100, 32, 40, 111, 115, 32, 101, 114, 114, 111, 114,
      32, 49, 49, 49, 41>>
MSG_NO_SUCH_FILE ==
    <<78, 111, 32, 115, 117, 99, 104, 32, 102, 105, 108, 101, 32, 111, 114,
      32, 100, 105, 114, 101, 99, 116, 111, 114, 121, 32, 40, 111, 115, 32,
      101, 114, 114, 111, 114, 32, 50, 41>>
\* ": "
MSG_COLON == <<58, 32>>
\* The Display text of bincode's DecodeError, whose variants the model does not
\* tell apart: "DecodeError"
MSG_DECODE_ERROR_TEXT ==
    <<68, 101, 99, 111, 100, 101, 69, 114, 114, 111, 114>>

RECURSIVE DecimalBytes(_)
\* The Display text of an unsigned integer.
DecimalBytes(n) ==
    IF n < 10 THEN <<48 + n>> ELSE DecimalBytes(n \div 10) \o <<48 + (n % 10)>>

(***************************************************************************)
(* std::str::from_utf8(..).is_ok(): the well-formed UTF-8 byte sequences   *)
(* (Unicode table 3-7).                                                    *)
(***************************************************************************)
IsCont(b) == b >= 128 /\ b <= 191

\* The length of the sequence that the byte b begins; 0 if b begins none.
Utf8Width(b) ==
    IF b < 128 THEN 1
    ELSE IF b >= 194 /\ b <= 223 THEN 2
    ELSE IF b >= 224 /\ b <= 239 THEN 3
    ELSE IF b >= 240 /\ b <= 244 THEN 4
    ELSE 0

\* The second byte b2 of a sequence that b begins: no overlong form, no
\* surrogate, nothing beyond U+10FFFF.
Utf8Second(b, b2) ==
    IF b = 224 THEN b2 >= 160 /\ b2 <= 191
    ELSE IF b = 237 THEN b2 >= 128 /\ b2 <= 159
    ELSE IF b = 240 THEN b2 >= 144 /\ b2 <= 191
    ELSE IF b = 244 THEN b2 >= 128 /\ b2 <= 143
    ELSE IsCont(b2)

\* std::str::from_utf8(bs).is_ok(): every byte that is no continuation byte
\* begins a whole sequence, and every continuation byte lies in the sequence
\* of the nearest byte before it that is none.
Utf8Valid(bs) ==
    \A i \in 1..Len(bs) :
        IF IsCont(bs[i])
          THEN \E k \in 1..3 :
                  /\ i - k >= 1
                  /\ Utf8Width(bs[i - k]) > k
                  /\ \A j \in (i - k + 1)..(i - 1) : IsCont(bs[j])
        ELSE /\ Utf8Width(bs[i]) > 0
             /\ i + Utf8Width(bs[i]) - 1 <= Len(bs)
             /\ Utf8Width(bs[i]) > 1 => Utf8Second(bs[i], bs[i + 1])
             /\ \A j \in (i + 1)..(i + Utf8Width(bs[i]) - 1) : IsCont(bs[j])

(***************************************************************************)
(* The codec: bincode's standard configuration (little endian, variable    *)
(* length integers), as pinned by the wire fixtures of protocol.rs.        *)
(***************************************************************************)
\* An unsigned integer: one byte below 251, else a marker and 2 or 4 bytes.
EncVarint(u) ==
    IF u < 251 THEN <<u>>
    ELSE IF u < 65536 THEN <<251>> \o ToLeBytes(u, 2)
    ELSE <<252>> \o ToLeBytes(u, 4)

\* A signed integer: zigzag, then as unsigned.
ZigZag(i) == IF i >= 0 THEN 2 * i ELSE -2 * i - 1
\* Variant: the sign is lost.
UnZigZagUnsigned(u) == u \div 2
UnZigZag(u) == IF u % 2 = 0 THEN u \div 2 ELSE -((u + 1) \div 2)

\* A String or a Vec<u8>: its length, then its bytes.
EncBytes(bs) == EncVarint(Len(bs)) \o bs

EncValue(v) ==
    EncBytes(v.content_type) \o EncBytes(v.data) \o EncVarint(ZigZag(v.created_at))

\* encode_message of a Request: request_id, the variant's index, its fields.
encode_request(r) ==
    EncVarint(r.request_id) \o
    (CASE r.kind = "Set" -> <<0>> \o EncValue(r.value)
       [] r.kind = "Get" -> <<1>>
       [] r.kind = "PeekMeta" -> <<2>>)

\* Decoders return [ok, val, rest]; ok = FALSE is a DecodeError.
\* The value of F at v, with v evaluated once: each step of a decoder consumes
\* its input once and hands the rest on.
Bind(v, F(_)) == CHOOSE r \in {F(x) : x \in {v}} : TRUE

DecFail == [ok |-> FALSE, val |-> 0, rest |-> <<>>]

DecVarint(bs) ==
    IF bs = <<>> THEN DecFail
    ELSE LET b == bs[1]
             w == IF b = 251 THEN 2 ELSE IF b = 252 THEN 4 ELSE 8
         IN IF b < 251 THEN [ok |-> TRUE, val |-> b, rest |-> Drop(bs, 1)]
            ELSE IF b > 253 \/ Len(bs) < 1 + w THEN DecFail
            ELSE [ok |-> TRUE, val |-> FromLeBytes(SubSeq(bs, 2, 1 + w)),
                  rest |-> Drop(bs, 1 + w)]

DecBytes(bs) ==
    Bind(DecVarint(bs), LAMBDA n :
        IF ~n.ok \/ Len(n.rest) < n.val THEN DecFail
        ELSE [ok |-> TRUE, val |-> Take(n.rest, n.val), rest |-> Drop(n.rest, n.val)])

\* A String is bytes that must be valid UTF-8.
DecString(bs) ==
    Bind(DecBytes(bs), LAMBDA s : IF s.ok /\ Utf8Valid(s.val) THEN s ELSE DecFail)

DecValue(bs) ==
    Bind(DecString(bs), LAMBDA ct :
        IF ~ct.ok THEN DecFail
        ELSE Bind(DecBytes(ct.rest), LAMBDA d :
            IF ~d.ok THEN DecFail
            ELSE Bind(DecVarint(d.rest), LAMBDA t :
                IF ~t.ok THEN DecFail
                ELSE [ok |-> TRUE,
                      val |-> [content_type |-> ct.val, data |-> d.val,
                               created_at |-> UnZigZag(t.val)],
                      rest |-> t.rest])))

NoValue == [content_type |-> <<>>, data |-> <<>>, created_at |-> 0]

\* decode_message of a Request: trailing bytes are ignored, an unknown variant
\* index or a short payload is an error.
decode_request(payload) ==
    Bind(DecVarint(payload), LAMBDA id :
        IF ~id.ok THEN DecFail
        ELSE Bind(DecVarint(id.rest), LAMBDA tag :
            IF ~tag.ok THEN DecFail
            ELSE IF tag.val = 0
              THEN Bind(DecValue(tag.rest), LAMBDA v :
                       IF ~v.ok THEN DecFail
                       ELSE [ok |-> TRUE,
                             val |-> [request_id |-> id.val, kind |-> "Set",
                                      value |-> v.val],
                             rest |-> v.rest])
            ELSE IF tag.val = 1
              THEN [ok |-> TRUE,
                    val |-> [request_id |-> id.val, kind |-> "Get", value |-> NoValue],
                    rest |-> tag.rest]
            ELSE IF tag.val = 2
              THEN [ok |-> TRUE,
                    val |-> [request_id |-> id.val, kind |-> "PeekMeta",
                             value |-> NoValue],
                    rest |-> tag.rest]
            ELSE DecFail))

(***************************************************************************)
(* framing.rs.                                                             *)
(***************************************************************************)
\* write_frame_payload: magic, version, length, payload.  (payload.len() as
\* u32 truncates at 4 GiB; every length of the model is far below.)
\* Variant: the length is written as a single byte in the last place.
write_frame_payload_be(payload) ==
    MAGIC \o ToLeBytes(VERSION, 2) \o <<0, 0, 0, Len(payload)>> \o payload

write_frame_payload(payload) ==
    MAGIC \o ToLeBytes(VERSION, 2) \o ToLeBytes(Len(payload), 4) \o payload

\* read_frame_payload (strict mode) on a stream that holds the bytes `bs` and
\* is at end of file or not.  status: "ok", one of the FramingErrors, "io"
\* (read_exact met the end of the stream) or "pending" (read_exact waits for
\* bytes that have not come).  consumed counts the bytes taken off the stream.
FrameResult(status, arg, payload, consumed) ==
    [status |-> status, arg |-> arg, payload |-> payload, consumed |-> consumed]

Short(bs, eof, consumed) ==
    FrameResult(IF eof THEN "io" ELSE "pending", 0, <<>>,
                IF eof THEN Len(bs) ELSE consumed)

\* Variant: a payload of exactly max_size bytes is refused as well.
\* Variant: the payload is taken from the stream before its length is checked.
read_frame_payload_greedy(bs, eof, max_size) ==
    IF Len(bs) < 4 THEN Short(bs, eof, 0)
    ELSE IF Take(bs, 4) # MAGIC THEN FrameResult("InvalidMagic", 0, <<>>, 4)
    ELSE IF Len(bs) < 6 THEN Short(bs, eof, 4)
    ELSE LET version == FromLeBytes(SubSeq(bs, 5, 6))
         IN IF version # VERSION
              THEN FrameResult("UnsupportedVersion", version, <<>>, 6)
            ELSE IF Len(bs) < 10 THEN Short(bs, eof, 6)
            ELSE LET len == FromLeBytes(SubSeq(bs, 7, 10))
                 IN IF Len(bs) < 10 + len THEN Short(bs, eof, 10)
                    ELSE IF len > max_size
                      THEN FrameResult("PayloadTooLarge", len, <<>>, 10 + len)
                    ELSE FrameResult("ok", 0, SubSeq(bs, 11, 10 + len), 10 + len)

read_frame_payload_strict(bs, eof, max_size) ==
    IF Len(bs) < 4 THEN Short(bs, eof, 0)
    ELSE IF Take(bs, 4) # MAGIC THEN FrameResult("InvalidMagic", 0, <<>>, 4)
    ELSE IF Len(bs) < 6 THEN Short(bs, eof, 4)
    ELSE LET version == FromLeBytes(SubSeq(bs, 5, 6))
         IN IF version # VERSION
              THEN FrameResult("UnsupportedVersion", version, <<>>, 6)
            ELSE IF Len(bs) < 10 THEN Short(bs, eof, 6)
            ELSE LET len == FromLeBytes(SubSeq(bs, 7, 10))
                 IN IF len >= max_size
                      THEN FrameResult("PayloadTooLarge", len, <<>>, 10)
                    ELSE IF Len(bs) < 10 + len THEN Short(bs, eof, 10)
                    ELSE FrameResult("ok", 0, SubSeq(bs, 11, 10 + len), 10 + len)

\* Variant: the whole header is read, and the length is checked first.
read_frame_payload_length_first(bs, eof, max_size) ==
    IF Len(bs) < 4 THEN Short(bs, eof, 0)
    ELSE IF Take(bs, 4) # MAGIC THEN FrameResult("InvalidMagic", 0, <<>>, 4)
    ELSE IF Len(bs) < 10 THEN Short(bs, eof, 4)
    ELSE LET version == FromLeBytes(SubSeq(bs, 5, 6))
             len == FromLeBytes(SubSeq(bs, 7, 10))
         IN IF len > max_size
              THEN FrameResult("PayloadTooLarge", len, <<>>, 10)
            ELSE IF version # VERSION
              THEN FrameResult("UnsupportedVersion", version, <<>>, 10)
            ELSE IF Len(bs) < 10 + len THEN Short(bs, eof, 10)
            ELSE FrameResult("ok", 0, SubSeq(bs, 11, 10 + len), 10 + len)

read_frame_payload(bs, eof, max_size) ==
    IF Len(bs) < 4 THEN Short(bs, eof, 0)
    ELSE IF Take(bs, 4) # MAGIC THEN FrameResult("InvalidMagic", 0, <<>>, 4)
    ELSE IF Len(bs) < 6 THEN Short(bs, eof, 4)
    ELSE LET version == FromLeBytes(SubSeq(bs, 5, 6))
         IN IF version # VERSION
              THEN FrameResult("UnsupportedVersion", version, <<>>, 6)
            ELSE IF Len(bs) < 10 THEN Short(bs, eof, 6)
            ELSE LET len == FromLeBytes(SubSeq(bs, 7, 10))
                 IN IF len > max_size
                      THEN FrameResult("PayloadTooLarge", len, <<>>, 10)
                    ELSE IF Len(bs) < 10 + len THEN Short(bs, eof, 10)
                    ELSE FrameResult("ok", 0, SubSeq(bs, 11, 10 + len), 10 + len)

\* read_magic over the bytes bs of a stream (eof: the stream ends after them):
\* status "ok" with the number of bytes discarded before the magic, or
\* "InvalidMagic", "MagicNotFound", "io", "pending"; consumed counts the bytes
\* taken from the stream.
MagicResult(status, discarded, consumed) ==
    [status |-> status, discarded |-> discarded, consumed |-> consumed]

\* Variant: the budget is checked before the window, and is spent when the
\* discarded bytes reach it.
read_magic_cap_first(bs, eof, resync, max_scan_bytes) ==
    LET n == Len(bs)
        short(consumed) == MagicResult(IF eof THEN "io" ELSE "pending", 0, consumed)
        scan[t \in 5..(n + 1)] ==
            IF t > n THEN short(n)
            ELSE IF t - 4 >= max_scan_bytes THEN MagicResult("MagicNotFound", 0, t)
            ELSE IF SubSeq(bs, t - 3, t) = MAGIC THEN MagicResult("ok", t - 4, t)
            ELSE scan[t + 1]
    IN IF n < 4 THEN short(n)
       ELSE IF SubSeq(bs, 1, 4) = MAGIC THEN MagicResult("ok", 0, 4)
       ELSE IF ~resync THEN MagicResult("InvalidMagic", 0, 4)
       ELSE scan[5]

\* Variant: the scan has no budget.
read_magic_unbounded(bs, eof, resync, max_scan_bytes) ==
    LET n == Len(bs)
        short(consumed) == MagicResult(IF eof THEN "io" ELSE "pending", 0, consumed)
        scan[t \in 5..(n + 1)] ==
            IF t > n THEN short(n)
            ELSE IF SubSeq(bs, t - 3, t) = MAGIC THEN MagicResult("ok", t - 4, t)
            ELSE scan[t + 1]
    IN IF n < 4 THEN short(n)
       ELSE IF SubSeq(bs, 1, 4) = MAGIC THEN MagicResult("ok", 0, 4)
       ELSE IF ~resync THEN MagicResult("InvalidMagic", 0, 4)
       ELSE scan[5]

read_magic(bs, eof, resync, max_scan_bytes) ==
    LET n == Len(bs)
        short(consumed) == MagicResult(IF eof THEN "io" ELSE "pending", 0, consumed)
        \* scan[t]: the loop, about to read the byte that makes total_read = t
        scan[t \in 5..(n + 1)] ==
            IF t > n THEN short(n)
            ELSE IF SubSeq(bs, t - 3, t) = MAGIC THEN MagicResult("ok", t - 4, t)
            ELSE IF t - 4 > max_scan_bytes THEN MagicResult("MagicNotFound", 0, t)
            ELSE scan[t + 1]
    IN IF n < 4 THEN short(n)
       ELSE IF SubSeq(bs, 1, 4) = MAGIC THEN MagicResult("ok", 0, 4)
       ELSE IF ~resync THEN MagicResult("InvalidMagic", 0, 4)
       ELSE scan[5]

\* FrameReadResult, or the error: FrameResult with discarded_bytes.
FrameReadResult(status, arg, payload, consumed, discarded_bytes) ==
    [status |-> status, arg |-> arg, payload |-> payload, consumed |-> consumed,
     discarded_bytes |-> discarded_bytes]

read_frame_payload_inner(bs, eof, max_size, resync, max_scan_bytes) ==
    Bind(read_magic(bs, eof, resync, max_scan_bytes), LAMBDA m :
        LET n == Len(bs)
            c == m.consumed
            short == FrameReadResult(IF eof THEN "io" ELSE "pending", 0, <<>>, n,
                                     m.discarded)
        IN IF m.status # "ok" THEN FrameReadResult(m.status, 0, <<>>, c, m.discarded)
           ELSE IF n < c + 2 THEN short
           ELSE LET version == FromLeBytes(SubSeq(bs, c + 1, c + 2))
                IN IF version # VERSION
                     THEN FrameReadResult("UnsupportedVersion", version, <<>>, c + 2,
                                          m.discarded)
                   ELSE IF n < c + 6 THEN short
                   ELSE LET len == FromLeBytes(SubSeq(bs, c + 3, c + 6))
                        IN IF len > max_size
                             THEN FrameReadResult("PayloadTooLarge", len, <<>>, c + 6,
                                                  m.discarded)
                           ELSE IF n < c + 6 + len THEN short
                           ELSE FrameReadResult("ok", 0,
                                                SubSeq(bs, c + 7, c + 6 + len),
                                                c + 6 + len, m.discarded))

read_frame_payload_resync(bs, eof, max_size, max_scan_bytes) ==
    read_frame_payload_inner(bs, eof, max_size, TRUE, max_scan_bytes)

(***************************************************************************)
(* protocol.rs: responses, and their codec.                                *)
(***************************************************************************)
Response(request_id, kind) ==
    [request_id |-> request_id, kind |-> kind]

ResponseKind(tag, value, size, code, message) ==
    [tag |-> tag, value |-> value, size |-> size, code |-> code, message |-> message]

KindOk == ResponseKind("Ok", NoValue, 0, "", <<>>)
KindEmpty == ResponseKind("Empty", NoValue, 0, "", <<>>)
KindValue(value) == ResponseKind("Value", value, 0, "", <<>>)
\* Meta { content_type, size, created_at }: value carries content_type and
\* created_at, with no data.
KindMeta(content_type, size, created_at) ==
    ResponseKind("Meta",
                 [content_type |-> content_type, data |-> <<>>, created_at |-> created_at],
                 size, "", <<>>)
KindError(code, message) == ResponseKind("Error", NoValue, 0, code, message)

\* enum ErrorCode, in declaration order: the codec writes the variant's index.
ErrorCodes ==
    <<"invalid_request", "payload_too_large", "invalid_utf8", "internal",
      "daemon_not_running", "version_mismatch">>
ErrorCodeIndex(code) == (CHOOSE i \in 1..Len(ErrorCodes) : ErrorCodes[i] = code) - 1

\* encode_message of a Response.
encode_response(r) ==
    EncVarint(r.request_id) \o
    (CASE r.kind.tag = "Ok" -> <<0>>
       [] r.kind.tag = "Value" -> <<1>> \o EncValue(r.kind.value)
       [] r.kind.tag = "Meta" ->
            <<2>> \o EncBytes(r.kind.value.content_type) \o EncVarint(r.kind.size)
                  \o EncVarint(ZigZag(r.kind.value.created_at))
       [] r.kind.tag = "Empty" -> <<3>>
       [] r.kind.tag = "Error" ->
            <<4>> \o EncVarint(ErrorCodeIndex(r.kind.code)) \o EncBytes(r.kind.message))

\* decode_message of a Response.
decode_response(payload) ==
    Bind(DecVarint(payload), LAMBDA id :
        IF ~id.ok THEN DecFail
        ELSE Bind(DecVarint(id.rest), LAMBDA tag :
            LET Dec(kind, rest) ==
                    [ok |-> TRUE, val |-> Response(id.val, kind), rest |-> rest]
            IN IF ~tag.ok THEN DecFail
               ELSE IF tag.val = 0 THEN Dec(KindOk, tag.rest)
               ELSE IF tag.val = 1
                 THEN Bind(DecValue(tag.rest), LAMBDA v :
                          IF ~v.ok THEN DecFail ELSE Dec(KindValue(v.val), v.rest))
               ELSE IF tag.val = 2
                 THEN Bind(DecString(tag.rest), LAMBDA ct :
                          IF ~ct.ok THEN DecFail
                          ELSE Bind(DecVarint(ct.rest), LAMBDA size :
                              IF ~size.ok THEN DecFail
                              ELSE Bind(DecVarint(size.rest), LAMBDA at :
                                  IF ~at.ok THEN DecFail
                                  ELSE Dec(KindMeta(ct.val, size.val, UnZigZag(at.val)),
                                           at.rest))))
               ELSE IF tag.val = 3 THEN Dec(KindEmpty, tag.rest)
               ELSE IF tag.val = 4
                 THEN Bind(DecVarint(tag.rest), LAMBDA code :
                          IF ~code.ok THEN DecFail
                          ELSE IF code.val >= Len(ErrorCodes) THEN DecFail
                          ELSE Bind(DecString(code.rest), LAMBDA msg :
                              IF ~msg.ok THEN DecFail
                              ELSE Dec(KindError(ErrorCodes[code.val + 1], msg.val),
                                       msg.rest)))
               ELSE DecFail))

(***************************************************************************)
(* daemon.rs.                                                              *)
(***************************************************************************)
\* ClipboardState { value: Option<ClipboardValue> }
None == [some |-> FALSE, value |-> NoValue]
Some(value) == [some |-> TRUE, value |-> value]

\* Variant: text is not checked for UTF-8.
validate_set_no_utf8(value, max_size) ==
    IF value.content_type # CONTENT_TYPE_TEXT /\ value.content_type # CONTENT_TYPE_PNG
      THEN "InvalidContentType"
    ELSE IF Len(value.data) > max_size THEN "PayloadTooLarge"
    ELSE "Ok"

\* Variant: text is checked for UTF-8 before its size.
validate_set_utf8_first(value, max_size) ==
    IF value.content_type # CONTENT_TYPE_TEXT /\ value.content_type # CONTENT_TYPE_PNG
      THEN "InvalidContentType"
    ELSE IF value.content_type = CONTENT_TYPE_TEXT /\ ~Utf8Valid(value.data)
      THEN "InvalidUtf8"
    ELSE IF Len(value.data) > max_size THEN "PayloadTooLarge"
    ELSE "Ok"

validate_set(value, max_size) ==
    IF value.content_type # CONTENT_TYPE_TEXT /\ value.content_type # CONTENT_TYPE_PNG
      THEN "InvalidContentType"
    ELSE IF Len(value.data) > max_size THEN "PayloadTooLarge"
    ELSE IF value.content_type = CONTENT_TYPE_TEXT /\ ~Utf8Valid(value.data)
      THEN "InvalidUtf8"
    ELSE "Ok"

to_error_response(err) ==
    CASE err = "InvalidContentType" -> KindError("invalid_request", MSG_INVALID_CONTENT_TYPE)
      [] err = "InvalidUtf8" -> KindError("invalid_utf8", MSG_INVALID_UTF8)
      [] err = "PayloadTooLarge" -> KindError("payload_too_large", MSG_PAYLOAD_TOO_LARGE)

\* handle_request: the response and the state it leaves, given the state it
\* finds.  The lock is taken and released inside, so the whole is one step.
\* Variant: a valid Set is answered Ok and not stored.
handle_request_lost_set(request, state, max_size) ==
    LET request_id == request.request_id
    IN CASE request.kind = "Get" ->
              [response |-> Response(request_id,
                                     IF state.some THEN KindValue(state.value)
                                     ELSE KindEmpty),
               state |-> state]
         [] request.kind = "PeekMeta" ->
              [response |-> Response(request_id,
                                     IF state.some
                                       THEN KindMeta(state.value.content_type,
                                                     Len(state.value.data),
                                                     state.value.created_at)
                                     ELSE KindEmpty),
               state |-> state]
         [] request.kind = "Set" ->
              LET err == validate_set(request.value, max_size)
              IN IF err = "Ok"
                   THEN [response |-> Response(request_id, KindOk),
                         state |-> state]
                 ELSE [response |-> Response(request_id, to_error_response(err)),
                       state |-> state]

\* Variant: a Set is stored before it is validated.
handle_request_store_first(request, state, max_size) ==
    LET request_id == request.request_id
    IN CASE request.kind = "Get" ->
              [response |-> Response(request_id,
                                     IF state.some THEN KindValue(state.value)
                                     ELSE KindEmpty),
               state |-> state]
         [] request.kind = "PeekMeta" ->
              [response |-> Response(request_id,
                                     IF state.some
                                       THEN KindMeta(state.value.content_type,
                                                     Len(state.value.data),
                                                     state.value.created_at)
                                     ELSE KindEmpty),
               state |-> state]
         [] request.kind = "Set" ->
              LET err == validate_set(request.value, max_size)
              IN IF err = "Ok"
                   THEN [response |-> Response(request_id, KindOk),
                         state |-> Some(request.value)]
                 ELSE [response |-> Response(request_id, to_error_response(err)),
                       state |-> Some(request.value)]

\* Variant: a rejected Set clears the stored value.
handle_request_clear_on_error(request, state, max_size) ==
    LET request_id == request.request_id
    IN CASE request.kind = "Get" ->
              [response |-> Response(request_id,
                                     IF state.some THEN KindValue(state.value)
                                     ELSE KindEmpty),
               state |-> state]
         [] request.kind = "PeekMeta" ->
              [response |-> Response(request_id,
                                     IF state.some
                                       THEN KindMeta(state.value.content_type,
                                                     Len(state.value.data),
                                                     state.value.created_at)
                                     ELSE KindEmpty),
               state |-> state]
         [] request.kind = "Set" ->
              LET err == validate_set(request.value, max_size)
              IN IF err = "Ok"
                   THEN [response |-> Response(request_id, KindOk),
                         state |-> Some(request.value)]
                 ELSE [response |-> Response(request_id, to_error_response(err)),
                       state |-> None]

\* Variant: the response does not carry the request id.
handle_request_zero_id(request, state, max_size) ==
    LET request_id == 0
    IN CASE request.kind = "Get" ->
              [response |-> Response(request_id,
                                     IF state.some THEN KindValue(state.value)
                                     ELSE KindEmpty),
               state |-> state]
         [] request.kind = "PeekMeta" ->
              [response |-> Response(request_id,
                                     IF state.some
                                       THEN KindMeta(state.value.content_type,
                                                     Len(state.value.data),
                                                     state.value.created_at)
                                     ELSE KindEmpty),
               state |-> state]
         [] request.kind = "Set" ->
              LET err == validate_set(request.value, max_size)
              IN IF err = "Ok"
                   THEN [response |-> Response(request_id, KindOk),
                         state |-> Some(request.value)]
                 ELSE [response |-> Response(request_id, to_error_response(err)),
                       state |-> state]

\* Variant: PeekMeta reports the size of an empty value.
handle_request_meta_no_size(request, state, max_size) ==
    LET request_id == request.request_id
    IN CASE request.kind = "Get" ->
              [response |-> Response(request_id,
                                     IF state.some THEN KindValue(state.value)
                                     ELSE KindEmpty),
               state |-> state]
         [] request.kind = "PeekMeta" ->
              [response |-> Response(request_id,
                                     IF state.some
                                       THEN KindMeta(state.value.content_type,
                                                     0,
                                                     state.value.created_at)
                                     ELSE KindEmpty),
               state |-> state]
         [] request.kind = "Set" ->
              LET err == validate_set(request.value, max_size)
              IN IF err = "Ok"
                   THEN [response |-> Response(request_id, KindOk),
                         state |-> Some(request.value)]
                 ELSE [response |-> Response(request_id, to_error_response(err)),
                       state |-> state]

handle_request(request, state, max_size) ==
    LET request_id == request.request_id
    IN CASE request.kind = "Get" ->
              [response |-> Response(request_id,
                                     IF state.some THEN KindValue(state.value)
                                     ELSE KindEmpty),
               state |-> state]
         [] request.kind = "PeekMeta" ->
              [response |-> Response(request_id,
                                     IF state.some
                                       THEN KindMeta(state.value.content_type,
                                                     Len(state.value.data),
                                                     state.value.created_at)
                                     ELSE KindEmpty),
               state |-> state]
         [] request.kind = "Set" ->
              LET err == validate_set(request.value, max_size)
              IN IF err = "Ok"
                   THEN [response |-> Response(request_id, KindOk),
                         state |-> Some(request.value)]
                 ELSE [response |-> Response(request_id, to_error_response(err)),
                       state |-> state]

\* The Display text of a FramingError.
FramingErrorText(status, arg) ==
    CASE status = "InvalidMagic" -> MSG_INVALID_MAGIC
      [] status = "MagicNotFound" -> MSG_MAGIC_NOT_FOUND
      [] status = "UnsupportedVersion" -> MSG_UNSUPPORTED_VERSION \o DecimalBytes(arg)
      [] status = "PayloadTooLarge" ->
           MSG_PAYLOAD_TOO_LARGE_N \o DecimalBytes(arg) \o MSG_BYTES

\* framing_error_response: status "io" is a read error that is no FramingError.
\* Variant: an unsupported version is answered as an invalid request.
framing_error_response_version_invalid(status, arg, request_id) ==
    CASE status \in {"InvalidMagic", "MagicNotFound"} ->
           Response(request_id,
                    KindError("invalid_request",
                              MSG_INVALID_FRAMING \o FramingErrorText(status, arg)))
      [] status = "UnsupportedVersion" ->
           Response(request_id,
                    KindError("invalid_request",
                              MSG_VERSION_MISMATCH \o FramingErrorText(status, arg)))
      [] status = "PayloadTooLarge" ->
           Response(request_id,
                    KindError("payload_too_large", FramingErrorText(status, arg)))
      [] OTHER ->
           Response(request_id,
                    KindError("internal", MSG_FRAMING_READ_ERROR \o MSG_EARLY_EOF))

framing_error_response(status, arg, request_id) ==
    CASE status \in {"InvalidMagic", "MagicNotFound"} ->
           Response(request_id,
                    KindError("invalid_request",
                              MSG_INVALID_FRAMING \o FramingErrorText(status, arg)))
      [] status = "UnsupportedVersion" ->
           Response(request_id,
                    KindError("version_mismatch",
                              MSG_VERSION_MISMATCH \o FramingErrorText(status, arg)))
      [] status = "PayloadTooLarge" ->
           Response(request_id,
                    KindError("payload_too_large", FramingErrorText(status, arg)))
      [] OTHER ->
           Response(request_id,
                    KindError("internal", MSG_FRAMING_READ_ERROR \o MSG_EARLY_EOF))

peer_uid_matches(actual, expected) == actual = expected

\* verify_peer_credentials: <<>> when the peer passes, else the error's text.
\* Variant: every peer is let in.
verify_peer_credentials_any(actual, expected) == <<>>

verify_peer_credentials(actual, expected) ==
    IF ~peer_uid_matches(actual, expected)
      THEN MSG_PEER_UID_MISMATCH \o DecimalBytes(expected) \o MSG_GOT
           \o DecimalBytes(actual) \o <<41>>
    ELSE <<>>

\* handle_connection: the response to a peer that fails the credential check.
PeerCheckResponse(err) ==
    Response(0, KindError("invalid_request", MSG_PEER_CHECK_FAILED \o MSG_COLON \o err))

\* handle_connection: the response when io_timeout_ms passes during the read.
\* Variant: a timeout is answered as an invalid request.
ReadTimeoutResponseInvalid == Response(0, KindError("invalid_request", MSG_READ_TIMEOUT))

ReadTimeoutResponse == Response(0, KindError("internal", MSG_READ_TIMEOUT))

\* handle_connection: the response to a payload that is no Request.
DecodeErrorResponse ==
    Response(0, KindError("invalid_request", MSG_DECODE_ERROR \o MSG_DECODE_ERROR_TEXT))

\* handle_connection, from the payload on: decode_message, then handle_request
\* or the decode error.
Dispatch(payload, state, max_size) ==
    Bind(decode_request(payload), LAMBDA d :
        IF d.ok THEN handle_request(d.val, state, max_size)
        ELSE [response |-> DecodeErrorResponse, state |-> state])

(***************************************************************************)
(* The daemon as a state machine: run_daemon's accept loop and one         *)
(* handle_connection task per accepted connection.                         *)
(***************************************************************************)
VARIABLES
    store,      \* ClipboardState.value, behind the mutex
    conns,      \* the connection slots: the handler's position and its peer
    accepted,   \* connections accepted so far
    setLog,     \* history: the values the Sets stored, in the order of the lock
    ackedVer,   \* history: the latest entry of setLog whose Ok has been written
    proxy,      \* one run of the proxy: its position, its streams, its exit
    call,       \* one call of a function of the library: its arguments, its result
    lock,       \* the connection whose handler holds the store's mutex, or 0
    start,      \* run_daemon before its accept loop: its position, the file system
    fleet,      \* the daemons started on one socket path, and the proxies that connect to it
    agent,      \* the agent: its event loop, the running flag, the operations it spawned
    setup       \* one machine's agent config file and the runs of setup-agent on it

vars == <<store, conns, accepted, setLog, ackedVer, proxy, call, lock, start, fleet, agent, setup>>

\* No call has been made.
NoCall == [op |-> "none", args |-> <<>>, result |-> <<>>]

ConnIds == 1..MaxConns

\* The daemon's own uid (getuid()) and the uids of the peers that connect.
DaemonUid == 1000
PeerUids == {1000, 1001, 1002}

NoResponse == Response(0, ResponseKind("None", NoValue, 0, "", <<>>))

\* A slot: pc is the handler's position; sent, inbuf, eof are what the peer has
\* written; payload is the frame's payload once read (framed); response is the
\* response once built; nreads and nwrites count the calls of
\* read_frame_payload and write_frame_payload; out is what the peer received;
\* result is what handle_connection returned.  History: ackedAtSend is
\* ackedVer when the peer sent; readVer, setVer are the lengths of setLog that
\* handle_request found and, for a Set that stored, left; errs_before is the
\* number of slots whose handler had returned Err when this one was accepted.
FreeConn ==
    [pc |-> "free", peer_uid |-> 0,
     sent |-> FALSE, inbuf |-> <<>>, eof |-> FALSE,
     framed |-> FALSE, payload |-> <<>>,
     response |-> NoResponse, nreads |-> 0, nwrites |-> 0, out |-> <<>>,
     result |-> "",
     ackedAtSend |-> 0, readVer |-> 0, setVer |-> 0, errs_before |-> 0]

(***************************************************************************)
(* What the peers send.                                                    *)
(***************************************************************************)
\* "application/octet-stream"
CONTENT_TYPE_OCTET ==
    <<97, 112, 112, 108, 105, 99, 97, 116, 105, 111, 110, 47, 111, 99, 116,
      101, 116, 45, 115, 116, 114, 101, 97, 109>>

Value(content_type, data) ==
    [content_type |-> content_type, data |-> data, created_at |-> 123]
SetRequest(id, value) == [request_id |-> id, kind |-> "Set", value |-> value]
GetRequest(id) == [request_id |-> id, kind |-> "Get", value |-> NoValue]
PeekMetaRequest(id) == [request_id |-> id, kind |-> "PeekMeta", value |-> NoValue]

\* The longest PNG data whose encoded Set still fits a frame of MaxSize bytes.
PngFit == MaxSize - Len(encode_request(SetRequest(7, Value(CONTENT_TYPE_PNG, <<>>))))

SetValues ==
    { Value(CONTENT_TYPE_TEXT, <<97>>),           \* "a"
      Value(CONTENT_TYPE_TEXT, <<195, 169>>),     \* "e" with an acute accent
      Value(CONTENT_TYPE_TEXT, <<255>>),          \* not UTF-8
      Value(CONTENT_TYPE_PNG, Rep(255, PngFit)),  \* fills the frame exactly
      Value(CONTENT_TYPE_PNG, Rep(97, MaxSize)),  \* data.len() = max_size
      Value(CONTENT_TYPE_OCTET, <<97>>) }

Requests ==
    {SetRequest(7, v) : v \in SetValues} \cup {GetRequest(300), PeekMetaRequest(7)}

Stream(bytes, eof) == [bytes |-> bytes, eof |-> eof]

\* The frames of the requests, sent by a peer that then waits for the answer.
GoodStreams == {Stream(write_frame_payload(encode_request(r)), FALSE) : r \in Requests}

BadStreams ==
    { \* not the magic
      Stream(<<66, 65, 68, 33>> \o ToLeBytes(VERSION, 2) \o ToLeBytes(0, 4), FALSE),
      \* another version
      Stream(MAGIC \o ToLeBytes(VERSION + 1, 2) \o ToLeBytes(0, 4), FALSE),
      \* a length beyond every max_size of the model, and no payload
      Stream(MAGIC \o ToLeBytes(VERSION, 2) \o ToLeBytes(1000, 4), FALSE),
      \* a payload that is no Request: an unknown variant index
      Stream(write_frame_payload(<<7, 9>>), FALSE),
      \* a frame cut short by a peer that goes silent
      Stream(Take(write_frame_payload(encode_request(GetRequest(300))), 12), FALSE),
      \* a peer that hangs up at once
      Stream(<<>>, TRUE) }

ClientStreams == GoodStreams \cup BadStreams

\* What a peer of the given uid sends.  The bytes of a peer of another uid are
\* never read, so one request stands for them all.
StreamsOf(uid) ==
    IF uid = DaemonUid THEN ClientStreams
    ELSE {Stream(write_frame_payload(
                     encode_request(SetRequest(7, Value(CONTENT_TYPE_TEXT, <<97>>)))),
                 FALSE)}

(***************************************************************************)
(* Actions.                                                                *)
(***************************************************************************)
Max(a, b) == IF a >= b THEN a ELSE b

\* The slots are interchangeable: a new connection takes the first one that
\* is not in use.
FirstIdle(c) ==
    /\ conns[c].pc \in {"free", "closed"}
    /\ \A d \in ConnIds : d < c => conns[d].pc \notin {"free", "closed"}

\* run_daemon: listener.accept() and tokio::spawn of handle_connection.
Accept(c, uid) ==
    /\ start.pc = "accept"
    /\ FirstIdle(c)
    /\ accepted < MaxAccepts
    /\ accepted' = accepted + 1
    /\ conns' = [conns EXCEPT ![c] =
           [FreeConn EXCEPT
               !.pc = "verify", !.peer_uid = uid,
               !.errs_before = Cardinality({d \in ConnIds : conns[d].result = "Err"})]]
    /\ UNCHANGED <<store, setLog, ackedVer, proxy, call, lock, start, fleet, agent, setup>>

\* The peer writes its bytes to the socket, any time before the daemon has
\* stopped reading.
ClientSend(c, s) ==
    /\ conns[c].pc \in {"verify", "read"}
    /\ ~conns[c].sent
    /\ s \in StreamsOf(conns[c].peer_uid)
    /\ conns' = [conns EXCEPT ![c].sent = TRUE, ![c].inbuf = s.bytes, ![c].eof = s.eof,
                              ![c].ackedAtSend = ackedVer]
    /\ UNCHANGED <<store, accepted, setLog, ackedVer, proxy, call, lock, start, fleet, agent, setup>>

\* handle_connection: the peer credential check, and the error response built
\* when it fails.
VerifyPeer(c) ==
    /\ conns[c].pc = "verify"
    /\ LET err == verify_peer_credentials(conns[c].peer_uid, DaemonUid)
       IN IF err # <<>>
            THEN conns' = [conns EXCEPT ![c].pc = "write_err",
                                        ![c].response = PeerCheckResponse(err)]
          ELSE conns' = [conns EXCEPT ![c].pc = "read"]
    /\ UNCHANGED <<store, accepted, setLog, ackedVer, proxy, call, lock, start, fleet, agent, setup>>

\* handle_connection: read_frame_payload returns, with a payload or an error.
ReadFrame(c) ==
    /\ conns[c].pc = "read"
    /\ conns[c].sent
    /\ LET r == read_frame_payload(conns[c].inbuf, conns[c].eof, MaxSize)
       IN /\ r.status # "pending"
          /\ IF r.status = "ok"
               THEN conns' = [conns EXCEPT ![c].pc = "handle", ![c].framed = TRUE,
                                           ![c].payload = r.payload,
                                           ![c].nreads = @ + 1]
             ELSE conns' = [conns EXCEPT
                      ![c].pc = "write_err",
                      ![c].nreads = @ + 1,
                      ![c].response = framing_error_response(r.status, r.arg, 0)]
    /\ UNCHANGED <<store, accepted, setLog, ackedVer, proxy, call, lock, start, fleet, agent, setup>>

\* handle_connection: io_timeout_ms passes before read_frame_payload returns.
ReadTimeout(c) ==
    /\ conns[c].pc = "read"
    /\ \/ ~conns[c].sent
       \/ read_frame_payload(conns[c].inbuf, conns[c].eof, MaxSize).status = "pending"
    /\ conns' = [conns EXCEPT ![c].pc = "write_err",
                              ![c].nreads = @ + 1,
                              ![c].response = ReadTimeoutResponse]
    /\ UNCHANGED <<store, accepted, setLog, ackedVer, proxy, call, lock, start, fleet, agent, setup>>

\* handle_request takes the mutex (state.lock().await) for a Get, a PeekMeta
\* and a Set that passed validate_set; a payload that is no Request and a Set
\* that is turned down never reach the lock.
NeedsLock(payload) ==
    Bind(decode_request(payload), LAMBDA d :
        /\ d.ok
        /\ d.val.kind = "Set" => validate_set(d.val.value, MaxSize) = "Ok")

\* handle_request: state.lock().await returns the guard, once the mutex is free.
LockStore(c) ==
    /\ conns[c].pc = "handle"
    /\ NeedsLock(conns[c].payload)
    /\ lock = 0
    /\ lock' = c
    /\ UNCHANGED <<store, conns, accepted, setLog, ackedVer, proxy, call, start, fleet, agent, setup>>

\* Variant: the guard lives until the handler returns.
LockAfterArmHeld(c) == c

\* The holder of the mutex after the match arm of handle_request that took
\* it: the guard is dropped at the end of the arm.
LockAfterArm(c) == 0

\* handle_connection: decode_message, then handle_request, with the guard of
\* the mutex in hand where it takes one: the arm reads or writes the value
\* and drops the guard without an await in between.
HandleRequest(c) ==
    /\ conns[c].pc = "handle"
    /\ NeedsLock(conns[c].payload) => lock = c
    /\ lock' = IF lock = c THEN LockAfterArm(c) ELSE lock
    /\ \E h \in {Dispatch(conns[c].payload, store, MaxSize)},
          d \in {decode_request(conns[c].payload)} :
          LET stored == d.ok /\ d.val.kind = "Set" /\ h.response.kind.tag = "Ok"
          IN /\ store' = h.state
             /\ setLog' = IF stored THEN Append(setLog, d.val.value) ELSE setLog
             /\ conns' = [conns EXCEPT
                    ![c].pc = "write",
                    ![c].response = h.response,
                    ![c].setVer = IF stored THEN Len(setLog) + 1 ELSE 0,
                    ![c].readVer = Len(setLog)]
    /\ UNCHANGED <<accepted, ackedVer, proxy, call, start, fleet, agent, setup>>

\* Variant: the connection goes back to reading after its response.
AfterWriteKeepOpen == "read"

\* The position of the handler once its response write has returned: it
\* returns, and the stream is dropped.
AfterWrite == "closed"

\* The frame a write puts on the socket.
ResponseFrame(response) == write_frame_payload(encode_response(response))

\* handle_connection: the write of an error response built before a request
\* was read; its outcome is ignored (let _ = ...) and the handler returns Ok.
WriteErrorResponse(c, ok) ==
    /\ conns[c].pc = "write_err"
    /\ conns' = [conns EXCEPT
           ![c].pc = AfterWrite,
           ![c].nwrites = @ + 1,
           ![c].out = IF ok THEN Append(@, ResponseFrame(conns[c].response)) ELSE @,
           ![c].result = "Ok"]
    /\ UNCHANGED <<store, accepted, setLog, ackedVer, proxy, call, lock, start, fleet, agent, setup>>

\* Variant: the accept loop awaits the handler and returns its error.
AfterHandlerErrReturn == "failed"

\* The position of run_daemon once a handler has returned Err: the handler
\* runs in a task of its own (tokio::spawn), its error is logged there, and
\* the loop is at listener.accept() as before.
AfterHandlerErr == "accept"

\* handle_connection: the write of the response under io_timeout_ms; a failed
\* or timed out write makes the handler return Err.
WriteResponse(c, outcome) ==
    /\ conns[c].pc = "write"
    /\ conns' = [conns EXCEPT
           ![c].pc = AfterWrite,
           ![c].nwrites = @ + 1,
           ![c].out = IF outcome = "ok" THEN Append(@, ResponseFrame(conns[c].response))
                      ELSE @,
           ![c].result = IF outcome = "ok" THEN "Ok" ELSE "Err"]
    /\ ackedVer' = IF outcome = "ok" THEN Max(ackedVer, conns[c].setVer) ELSE ackedVer
    /\ start' = [start EXCEPT !.pc = IF outcome = "ok" THEN @ ELSE AfterHandlerErr]
    /\ UNCHANGED <<store, accepted, setLog, proxy, call, lock, fleet, agent, setup>>

(***************************************************************************)
(* proxy.rs: one run of run_proxy.  The daemon's side of the socket is the  *)
(* environment here: a connect succeeds, fails or times out, and the bytes  *)
(* that come back are any of DaemonStreams.                                 *)
(***************************************************************************)
EXIT_OK == 0
EXIT_INVALID_REQUEST == 2
EXIT_PAYLOAD_TOO_LARGE == 3
EXIT_DAEMON_NOT_RUNNING == 4
EXIT_INTERNAL == 5
\* run_proxy returned Err: main ends with an error, having written nothing more.
EXIT_ERR == 1

\* Variant: invalid_utf8 is reported as an internal error.
map_error_code_utf8_internal(code) ==
    CASE code = "invalid_request" -> EXIT_INVALID_REQUEST
      [] code = "payload_too_large" -> EXIT_PAYLOAD_TOO_LARGE
      [] code = "invalid_utf8" -> EXIT_INTERNAL
      [] code = "daemon_not_running" -> EXIT_DAEMON_NOT_RUNNING
      [] code = "version_mismatch" -> EXIT_INVALID_REQUEST
      [] code = "internal" -> EXIT_INTERNAL

map_error_code(code) ==
    CASE code = "invalid_request" -> EXIT_INVALID_REQUEST
      [] code = "payload_too_large" -> EXIT_PAYLOAD_TOO_LARGE
      [] code = "invalid_utf8" -> EXIT_INVALID_REQUEST
      [] code = "daemon_not_running" -> EXIT_DAEMON_NOT_RUNNING
      [] code = "version_mismatch" -> EXIT_INVALID_REQUEST
      [] code = "internal" -> EXIT_INTERNAL

\* Variant: the synthesized response never carries the request's id.
request_id_always_zero(payload) == 0

request_id_from_payload(payload) ==
    LET d == decode_request(payload)
    IN IF d.ok THEN d.val.request_id ELSE 0

\* run_proxy: the message of a ConnectError.
ConnectErrorMessage(err) ==
    CASE err = "Timeout" -> MSG_CONNECT_TIMED_OUT
      [] err = "Failed" -> MSG_NOT_RUNNING \o SOCKET_PATH \o MSG_COLON \o MSG_CONNECT_REFUSED
      [] err = "AutostartFailed" -> MSG_AUTOSTART_FAILED \o MSG_NO_SUCH_FILE

\* run_proxy: the response synthesized when connect_daemon fails.
ConnectErrorResponse(err, request_payload) ==
    Response(request_id_from_payload(request_payload),
             KindError("daemon_not_running", ConnectErrorMessage(err)))

\* run_proxy: the exit code for the payload read from the daemon.
ExitCodeFor(response_payload) ==
    LET d == decode_response(response_payload)
    IN IF ~d.ok THEN EXIT_INTERNAL
       ELSE IF d.val.kind.tag = "Error" THEN map_error_code(d.val.kind.code)
       ELSE EXIT_OK

\* Variant: the attempts are counted before the daemon is spawned.
connect_daemon_pass_attempts_first(autostart, attempts, started, outcome, spawn_ok) ==
    LET n == attempts + 1
        Pass(end, st, sp, called) ==
            [attempts |-> n, started |-> st, spawned |-> sp, spawn_called |-> called,
             end |-> end]
    IN IF outcome = "ok" THEN Pass("ok", started, FALSE, FALSE)
       ELSE IF outcome = "err"
         THEN IF ~autostart \/ n >= 3 THEN Pass("Failed", started, FALSE, FALSE)
              ELSE IF ~started
                THEN IF ~spawn_ok THEN Pass("AutostartFailed", started, FALSE, TRUE)
                     ELSE Pass("retry", TRUE, TRUE, TRUE)
              ELSE Pass("retry", started, FALSE, FALSE)
       ELSE IF ~autostart \/ n >= 3 THEN Pass("Timeout", started, FALSE, FALSE)
       ELSE Pass("retry", started, FALSE, FALSE)

\* Variant: started is not set, and every connect error spawns a daemon.
connect_daemon_pass_respawn(autostart, attempts, started, outcome, spawn_ok) ==
    LET n == attempts + 1
        Pass(end, st, sp, called) ==
            [attempts |-> n, started |-> st, spawned |-> sp, spawn_called |-> called,
             end |-> end]
    IN IF outcome = "ok" THEN Pass("ok", started, FALSE, FALSE)
       ELSE IF outcome = "err"
         THEN IF autostart /\ n < 3
                THEN IF ~spawn_ok THEN Pass("AutostartFailed", started, FALSE, TRUE)
                     ELSE Pass("retry", started, TRUE, TRUE)
              ELSE Pass("Failed", started, FALSE, FALSE)
       ELSE IF ~autostart \/ n >= 3 THEN Pass("Timeout", started, FALSE, FALSE)
       ELSE Pass("retry", started, FALSE, FALSE)

\* One pass of connect_daemon's loop, from the outcome of the connect and, if
\* the daemon is spawned in this pass, of the spawn: attempts and started as
\* the pass leaves them, whether spawn_daemon was called and whether it
\* spawned the daemon, and what the pass ends in: "ok" (the stream), a
\* ConnectError, or "retry" (sleep, next pass).
connect_daemon_pass(autostart, attempts, started, outcome, spawn_ok) ==
    LET n == attempts + 1
        Pass(end, st, sp, called) ==
            [attempts |-> n, started |-> st, spawned |-> sp, spawn_called |-> called,
             end |-> end]
    IN IF outcome = "ok" THEN Pass("ok", started, FALSE, FALSE)
       ELSE IF outcome = "err"
         THEN IF autostart /\ ~started
                THEN IF ~spawn_ok THEN Pass("AutostartFailed", started, FALSE, TRUE)
                     ELSE Pass("retry", TRUE, TRUE, TRUE)
              ELSE IF ~autostart \/ n >= 3 THEN Pass("Failed", started, FALSE, FALSE)
              ELSE Pass("retry", started, FALSE, FALSE)
       ELSE IF ~autostart \/ n >= 3 THEN Pass("Timeout", started, FALSE, FALSE)
       ELSE Pass("retry", started, FALSE, FALSE)

\* What arrives on the proxy's stdin.
ProxyStdinStreams ==
    { Stream(write_frame_payload(encode_request(GetRequest(300))), TRUE),
      Stream(write_frame_payload(
                 encode_request(SetRequest(7, Value(CONTENT_TYPE_TEXT, <<97>>)))), TRUE),
      \* a request longer than max_size
      Stream(write_frame_payload(
                 encode_request(SetRequest(7, Value(CONTENT_TYPE_PNG, Rep(97, MaxSize))))),
             TRUE),
      \* a payload that is no Request
      Stream(write_frame_payload(<<7, 9>>), TRUE),
      \* not the magic
      Stream(<<66, 65, 68, 33>> \o ToLeBytes(VERSION, 2) \o ToLeBytes(0, 4), TRUE),
      \* stdin closed before a frame
      Stream(<<>>, TRUE),
      \* a frame cut short, and then silence
      Stream(Take(write_frame_payload(encode_request(GetRequest(300))), 12), FALSE) }

\* What comes back from the daemon's socket.
DaemonResponses ==
    { Response(300, KindOk),
      Response(300, KindEmpty),
      Response(300, KindValue(Value(CONTENT_TYPE_PNG, Rep(97, MaxSize)))),
      Response(300, KindMeta(CONTENT_TYPE_TEXT, 1, 123)) }
    \cup {Response(7, KindError(ErrorCodes[i], MSG_PAYLOAD_TOO_LARGE)) :
              i \in 1..Len(ErrorCodes)}

DaemonStreams ==
    {Stream(ResponseFrame(r), TRUE) : r \in DaemonResponses}
    \cup
    { \* a payload that is no Response
      Stream(write_frame_payload(<<7, 9>>), TRUE),
      \* a length beyond max_size + RESPONSE_OVERHEAD
      Stream(MAGIC \o ToLeBytes(VERSION, 2)
                   \o ToLeBytes(MaxSize + RESPONSE_OVERHEAD + 1, 4), FALSE),
      \* the daemon closes without a response
      Stream(<<>>, TRUE),
      \* the daemon stays silent
      Stream(<<>>, FALSE) }

\* pc is run_proxy's position; exit_code is what the process ends with.
\* stdout_reader is what the process at the other end of stdout does: it
\* "reads", or it "stalls" and never takes a byte, so that a frame longer
\* than the pipe holds (a Value of up to max_size bytes) is never written out.
\* History: stdin and from_daemon are the bytes that arrived on stdin and
\* from the daemon's socket; spawn_calls, spawns and timeouts count the calls
\* of spawn_daemon, those that spawned, and the connects that timed out.
ProxyAt(autostart) ==
    [pc |-> "read_stdin", autostart |-> autostart, stdout_reader |-> "reads",
     stdin |-> <<>>, from_daemon |-> <<>>,
     request_payload |-> <<>>,
     attempts |-> 0, started |-> FALSE, spawn_calls |-> 0, spawns |-> 0,
     timeouts |-> 0, connect_error |-> "",
     to_daemon |-> <<>>,
     response_payload |-> <<>>,
     stdout |-> <<>>,
     failed |-> "",
     exit_code |-> -1]

ProxyExit(code) == [proxy EXCEPT !.pc = "exited", !.exit_code = code]

\* run_proxy returns Err from the given step, through `?`.
ProxyFail(step) == [ProxyExit(EXIT_ERR) EXCEPT !.failed = step]

DaemonUnchanged == UNCHANGED <<store, conns, accepted, setLog, ackedVer, call, lock, start, fleet, agent, setup>>

\* run_proxy: the read of the request frame from stdin, under io_timeout_ms.
\* Every failure, the timeout included, is returned with `?`.
ProxyReadStdin(s) ==
    /\ proxy.pc = "read_stdin"
    /\ LET r == read_frame_payload(s.bytes, s.eof, MaxSize)
       IN IF r.status = "ok"
            THEN proxy' = [proxy EXCEPT !.pc = "connect", !.stdin = s.bytes,
                                        !.request_payload = r.payload]
          ELSE proxy' = [ProxyFail("read_stdin") EXCEPT !.stdin = s.bytes]
    /\ DaemonUnchanged

\* connect_daemon: one pass of the loop.
ProxyConnect(outcome, spawn_ok) ==
    /\ proxy.pc = "connect"
    /\ LET p == connect_daemon_pass(proxy.autostart, proxy.attempts, proxy.started,
                                    outcome, spawn_ok)
       IN proxy' = [proxy EXCEPT
              !.attempts = p.attempts,
              !.started = p.started,
              !.spawn_calls = IF p.spawn_called THEN @ + 1 ELSE @,
              !.spawns = IF p.spawned THEN @ + 1 ELSE @,
              !.timeouts = IF outcome = "timeout" THEN @ + 1 ELSE @,
              !.connect_error = IF p.end \in {"ok", "retry"} THEN "" ELSE p.end,
              !.pc = CASE p.end = "ok" -> "write_request"
                       [] p.end = "retry" -> "connect"
                       [] OTHER -> "write_connect_error"]
    /\ DaemonUnchanged

\* run_proxy: the synthesized daemon_not_running response goes to stdout, and
\* the exit code is 4; a failed write is returned with `?`.
ProxyWriteConnectError(ok) ==
    /\ proxy.pc = "write_connect_error"
    /\ proxy' =
         IF ok
           THEN [ProxyExit(EXIT_DAEMON_NOT_RUNNING) EXCEPT
                    !.stdout = Append(@, ResponseFrame(
                        ConnectErrorResponse(proxy.connect_error, proxy.request_payload)))]
         ELSE ProxyFail("write_stdout")
    /\ DaemonUnchanged

\* run_proxy: the request frame goes to the daemon, under io_timeout_ms.
ProxyWriteRequest(outcome) ==
    /\ proxy.pc = "write_request"
    /\ proxy' =
         IF outcome = "ok"
           THEN [proxy EXCEPT !.pc = "read_response",
                              !.to_daemon = write_frame_payload(proxy.request_payload)]
         ELSE ProxyFail("write_request")
    /\ DaemonUnchanged

\* run_proxy: the read of the response frame from the daemon, under
\* io_timeout_ms and max_size + RESPONSE_OVERHEAD.
ProxyReadResponse(s) ==
    /\ proxy.pc = "read_response"
    /\ LET r == read_frame_payload(s.bytes, s.eof, MaxSize + RESPONSE_OVERHEAD)
       IN IF r.status = "ok"
            THEN proxy' = [proxy EXCEPT !.pc = "write_stdout", !.from_daemon = s.bytes,
                                        !.response_payload = r.payload]
          ELSE proxy' = [ProxyFail("read_response") EXCEPT !.from_daemon = s.bytes]
    /\ DaemonUnchanged

\* Variant: the proxy writes out the response it decoded, encoded again, and
\* nothing where the payload is no Response.
StdoutPayloadReencoded(response_payload) ==
    Bind(decode_response(response_payload), LAMBDA d :
        IF d.ok THEN encode_response(d.val) ELSE <<>>)

\* run_proxy: the payload of the frame that goes to stdout is the local
\* response_payload, whatever decode_message made of it.
StdoutPayload(response_payload) == response_payload

\* run_proxy: the payload read from the daemon goes to stdout, and the exit
\* code is the one decoded from it.  The write is under no timeout: it
\* returns when the reader has taken the frame, or with an error.
ProxyWriteStdout(ok) ==
    /\ proxy.pc = "write_stdout"
    /\ proxy.stdout_reader # "stalls"
    /\ proxy' =
         IF ok
           THEN [ProxyExit(ExitCodeFor(proxy.response_payload)) EXCEPT
                    !.stdout = Append(@, write_frame_payload(
                                             StdoutPayload(proxy.response_payload)))]
         ELSE ProxyFail("write_stdout")
    /\ DaemonUnchanged

(***************************************************************************)
(* daemon.rs: run_daemon from its first statement to the accept loop.  A   *)
(* file mode and a umask are sets of permission bits.                      *)
(***************************************************************************)
Mode0700 == {"ur", "uw", "ux"}
Mode0600 == {"ur", "uw"}
Umask0077 == {"gr", "gw", "gx", "or", "ow", "ox"}

\* Path::exists follows symbolic links: a link to nothing does not exist.
path_exists(entry) == entry \notin {"none", "dangling_symlink"}

\* run_daemon at its first statement.  dir_exists, dir_mode: the parent
\* directory of the socket path; entry, sock_mode: what is at the socket
\* path; umask: the process umask; old_umask: the local of run_daemon;
\* listener: what UnixListener::bind returned.  History: steps is the calls
\* made so far.
StartAt(dir_exists, dir_mode, entry, umask) ==
    [pc |-> "create_dir_all", dir_exists |-> dir_exists, dir_mode |-> dir_mode,
     entry |-> entry, sock_mode |-> {}, umask |-> umask, old_umask |-> {},
     listener |-> "none", steps |-> <<>>]

\* The states a daemon starts in.  Its umask is 0022, 0002, 0077 or 0000.
\* The parent directory is there or not; where it is, the socket path holds
\* nothing, the socket of an earlier daemon, a regular file, a directory, or
\* a symbolic link to a file that does not exist.
StartStates ==
    LET umasks == {{"gw", "ow"}, {"ow"}, Umask0077, {}}
    IN {StartAt(FALSE, {}, "none", u) : u \in umasks}
       \cup {StartAt(TRUE, m, e, u) :
               m \in {Mode0700, Mode0700 \cup Umask0077},
               e \in {"none", "socket", "file", "dir", "dangling_symlink"},
               u \in umasks}

\* The daemon of the accept loop: started under umask 0022 where nothing was.
Listening ==
    [pc |-> "accept", dir_exists |-> TRUE, dir_mode |-> Mode0700,
     entry |-> "socket", sock_mode |-> Mode0600, umask |-> {"gw", "ow"},
     old_umask |-> {"gw", "ow"}, listener |-> "ok",
     steps |-> <<"create_dir_all", "set_permissions_parent", "umask", "bind",
                 "umask_restore", "set_permissions_socket">>]

\* run_daemon returns the error of a failed call (the ? operator).
StartFailed(step) == [start EXCEPT !.pc = "failed", !.steps = Append(@, step)]

\* prepare_socket_path: std::fs::create_dir_all(parent)?
CreateDirAll(ok) ==
    /\ start.pc = "create_dir_all"
    /\ start' = IF ~ok THEN StartFailed("create_dir_all")
                ELSE [start EXCEPT
                        !.pc = "set_permissions_parent",
                        !.dir_exists = TRUE,
                        !.dir_mode = IF start.dir_exists THEN @
                                     ELSE (Mode0700 \cup Umask0077) \ start.umask,
                        !.steps = Append(@, "create_dir_all")]
    /\ UNCHANGED <<store, conns, accepted, setLog, ackedVer, proxy, call, lock, fleet, agent, setup>>

\* prepare_socket_path: std::fs::set_permissions(parent, 0o700)?
SetPermissionsParent(ok) ==
    /\ start.pc = "set_permissions_parent"
    /\ start' = IF ~ok THEN StartFailed("set_permissions_parent")
                ELSE [start EXCEPT !.pc = "remove_file", !.dir_mode = Mode0700,
                                   !.steps = Append(@, "set_permissions_parent")]
    /\ UNCHANGED <<store, conns, accepted, setLog, ackedVer, proxy, call, lock, fleet, agent, setup>>

\* prepare_socket_path: if path.exists() { std::fs::remove_file(path)? }.
\* remove_file fails on a directory.
RemoveFile(ok) ==
    /\ start.pc = "remove_file"
    /\ start' = IF ~path_exists(start.entry) THEN [start EXCEPT !.pc = "set_umask"]
                ELSE IF ~ok \/ start.entry = "dir" THEN StartFailed("remove_file")
                ELSE [start EXCEPT !.pc = "set_umask", !.entry = "none",
                                   !.steps = Append(@, "remove_file")]
    /\ UNCHANGED <<store, conns, accepted, setLog, ackedVer, proxy, call, lock, fleet, agent, setup>>

\* set_umask: libc::umask(0o077) returns the umask it replaces.
set_umask ==
    /\ start.pc = "set_umask"
    /\ start' = [start EXCEPT !.pc = "bind", !.old_umask = start.umask,
                              !.umask = Umask0077, !.steps = Append(@, "umask")]
    /\ UNCHANGED <<store, conns, accepted, setLog, ackedVer, proxy, call, lock, fleet, agent, setup>>

\* UnixListener::bind(&socket_path): fails when anything is at the path (a
\* dangling link too) or for another reason; creates the socket with the
\* mode 0777 less the umask.
BindListener(ok) ==
    /\ start.pc = "bind"
    /\ start' = IF ok /\ start.entry = "none"
                  THEN [start EXCEPT !.pc = "umask_restore", !.listener = "ok",
                                     !.entry = "socket",
                                     !.sock_mode = (Mode0700 \cup Umask0077) \ start.umask,
                                     !.steps = Append(@, "bind")]
                ELSE [start EXCEPT !.pc = "umask_restore", !.listener = "err",
                                   !.steps = Append(@, "bind")]
    /\ UNCHANGED <<store, conns, accepted, setLog, ackedVer, proxy, call, lock, fleet, agent, setup>>

\* Variant: the accept loop follows the bind at once.
AfterBindAccept == "accept"

\* The position of run_daemon after a bind that succeeded.
AfterBind == "set_permissions_socket"

\* libc::umask(old_umask), then listener.wrap_err("bind unix socket")?
UmaskRestore ==
    /\ start.pc = "umask_restore"
    /\ start' = [start EXCEPT
                   !.pc = IF start.listener = "ok" THEN AfterBind ELSE "failed",
                   !.umask = start.old_umask,
                   !.steps = Append(@, "umask_restore")]
    /\ UNCHANGED <<store, conns, accepted, setLog, ackedVer, proxy, call, lock, fleet, agent, setup>>

\* std::fs::set_permissions(&socket_path, 0o600)?
SetPermissionsSocket(ok) ==
    /\ start.pc = "set_permissions_socket"
    /\ start' = IF ~ok THEN StartFailed("set_permissions_socket")
                ELSE [start EXCEPT !.pc = "accept", !.sock_mode = Mode0600,
                                   !.steps = Append(@, "set_permissions_socket")]
    /\ UNCHANGED <<store, conns, accepted, setLog, ackedVer, proxy, call, lock, fleet, agent, setup>>

(***************************************************************************)
(* daemon.rs, proxy.rs: the daemons started on one socket path and the     *)
(* proxies with --autostart-daemon that connect to it.  A daemon is a      *)
(* process of its own: between two of its system calls the others run.     *)
(***************************************************************************)
DaemonIds == 1..MaxDaemons
ClientIds == 1..MaxClients

\* path: the daemon whose socket file is at the socket path, 0 where nothing
\* is.  A daemon: pc is run_daemon's position ("off": not started), some is
\* whether its store holds a value.  A proxy: pc is its position, attempts
\* and started are connect_daemon's locals, conn is the daemon it reached.
\* History: acked is whether the daemon has acknowledged a Set.
FleetAt ==
    [path |-> 0,
     daemons |-> [d \in DaemonIds |-> [pc |-> "off", some |-> FALSE, acked |-> FALSE]],
     clients |-> [p \in ClientIds |->
                    [pc |-> "connect", attempts |-> 0, started |-> FALSE, conn |-> 0]]]

FleetUnchanged ==
    UNCHANGED <<store, conns, accepted, setLog, ackedVer, proxy, call, lock, start, agent, setup>>

\* The daemon holds its listener: from UnixListener::bind until run_daemon
\* returns.
FleetListens(d) == fleet.daemons[d].pc \in {"set_permissions", "accept"}

\* The daemon slots are interchangeable: a new process takes the first that
\* is not in use.
FleetFirstOff(d) ==
    /\ fleet.daemons[d].pc = "off"
    /\ \A e \in DaemonIds : e < d => fleet.daemons[e].pc # "off"

\* `ssh_clipboard daemon` is started, by hand or by a service manager:
\* run_daemon is at prepare_socket_path.
FleetStartDaemon(d) ==
    /\ FleetFirstOff(d)
    /\ fleet' = [fleet EXCEPT !.daemons[d].pc = "exists"]
    /\ FleetUnchanged

\* prepare_socket_path: if path.exists() (the parent directory is there).
FleetPathExists(d) ==
    /\ fleet.daemons[d].pc = "exists"
    /\ fleet' = [fleet EXCEPT
                   !.daemons[d].pc = IF fleet.path # 0 THEN "remove_file" ELSE "bind"]
    /\ FleetUnchanged

\* prepare_socket_path: std::fs::remove_file(path)?, whatever the file is.
FleetRemoveFile(d) ==
    /\ fleet.daemons[d].pc = "remove_file"
    /\ fleet' = IF fleet.path = 0 THEN [fleet EXCEPT !.daemons[d].pc = "failed"]
                ELSE [fleet EXCEPT !.path = 0, !.daemons[d].pc = "bind"]
    /\ FleetUnchanged

\* UnixListener::bind(&socket_path): fails where a file is at the path.
FleetBind(d) ==
    /\ fleet.daemons[d].pc = "bind"
    /\ fleet' = IF fleet.path # 0 THEN [fleet EXCEPT !.daemons[d].pc = "failed"]
                ELSE [fleet EXCEPT !.path = d, !.daemons[d].pc = "set_permissions"]
    /\ FleetUnchanged

\* std::fs::set_permissions(&socket_path, 0o600)?: on whatever is at the path.
FleetSetPermissions(d) ==
    /\ fleet.daemons[d].pc = "set_permissions"
    /\ fleet' = [fleet EXCEPT
                   !.daemons[d].pc = IF fleet.path = 0 THEN "failed" ELSE "accept"]
    /\ FleetUnchanged

\* connect_daemon of a proxy with --autostart-daemon: one pass of the loop.
\* The connect reaches the daemon whose socket file is at the path, if that
\* daemon holds its listener; a daemon that is spawned starts run_daemon.
FleetConnect(p, spawn_ok) ==
    /\ fleet.clients[p].pc = "connect"
    /\ \E pass \in {connect_daemon_pass(
                       TRUE, fleet.clients[p].attempts, fleet.clients[p].started,
                       IF fleet.path # 0 /\ FleetListens(fleet.path) THEN "ok" ELSE "err",
                       spawn_ok)} :
       \E d \in DaemonIds :
          /\ IF pass.spawned THEN FleetFirstOff(d) ELSE d = 1
          /\ fleet' = [fleet EXCEPT
                !.clients[p] =
                    [pc |-> CASE pass.end = "ok" -> "connected"
                              [] pass.end = "retry" -> "connect"
                              [] OTHER -> "failed",
                     attempts |-> pass.attempts, started |-> pass.started,
                     conn |-> IF pass.end = "ok" THEN fleet.path ELSE 0],
                !.daemons[d].pc = IF pass.spawned THEN "exists" ELSE @]
    /\ FleetUnchanged

\* The proxy relays a valid Set to the daemon it reached; the daemon, in its
\* accept loop, stores the value and its Ok reaches the proxy.
FleetServeSet(p) ==
    /\ fleet.clients[p].pc = "connected"
    /\ fleet.daemons[fleet.clients[p].conn].pc = "accept"
    /\ fleet' = [fleet EXCEPT
                   !.clients[p].pc = "done",
                   !.daemons[fleet.clients[p].conn].some = TRUE,
                   !.daemons[fleet.clients[p].conn].acked = TRUE]
    /\ FleetUnchanged

(***************************************************************************)
(* agent/run.rs: the event loop of run_agent, which runs every handler on  *)
(* one thread, and the operations that start_operation spawns on the tokio *)
(* runtime, which run beside it.                                           *)
(***************************************************************************)
\* running: the AtomicBool operation_running; queue: the user events sent to
\* the event loop and not yet handled; tasks: the operations spawned, each
\* with its name, its position ("future": f(cfg) is running) and the result
\* of its future.  History: triggers and handled count the triggers sent and
\* the events handled; delivered is the tasks whose completion event the
\* loop has handled; cleared is whether the task has stored false; seen is
\* delivered as it was when the task was spawned.
AgentAt ==
    [running |-> FALSE, queue |-> <<>>, tasks |-> <<>>,
     triggers |-> 0, handled |-> 0, delivered |-> {}]

AgentUnchanged ==
    UNCHANGED <<store, conns, accepted, setLog, ackedVer, proxy, call, lock, start, fleet, setup>>

\* The user events of the model.  A completion event carries, as history,
\* the task that sent it (0: start_operation sent it).
TriggerEvent(name, source) ==
    [kind |-> "Trigger", name |-> name, source |-> source, message |-> "", task |-> 0]
OperationOk(name, task) ==
    [kind |-> "OperationOk", name |-> name, source |-> "", message |-> "", task |-> task]
OperationErr(name, message, task) ==
    [kind |-> "OperationErr", name |-> name, source |-> "", message |-> message,
     task |-> task]

\* Variant: the flag is read and left as it is.
AtomicLoad(flag, value) == [old |-> flag, new |-> flag]

\* AtomicBool::swap(value, SeqCst): the value before, and the value after.
AtomicSwap(flag, value) == [old |-> flag, new |-> value]

\* Variant: the completion event is sent before the flag is cleared.
TaskStepsPostFirst == <<"post", "store">>

\* What the spawned task does once f(cfg).await has returned:
\* running.store(false), then proxy.send_event of the result.
TaskSteps == <<"store", "post">>

TaskPcAfter(pc) ==
    IF pc = "future" THEN TaskSteps[1]
    ELSE IF pc = TaskSteps[1] THEN TaskSteps[2]
    ELSE "done"

\* The handlers set in run_agent: a click on Push, Pull or Peek in the tray
\* menu, or a press of the push or the pull hotkey, is sent to the event loop.
AgentTrigger(name, source) ==
    /\ agent.triggers < MaxTriggers
    /\ source = "hotkey" => name # "peek"
    /\ agent' = [agent EXCEPT !.triggers = @ + 1,
                              !.queue = Append(@, TriggerEvent(name, source))]
    /\ AgentUnchanged

\* The event loop takes a trigger: handle_menu or the hotkey arm calls
\* start_operation, which swaps the flag and either sends OperationErr
\* "already running" or spawns the operation.
AgentStartOperation ==
    /\ agent.queue # <<>>
    /\ Head(agent.queue).kind = "Trigger"
    /\ \E e \in {Head(agent.queue)}, swap \in {AtomicSwap(agent.running, TRUE)} :
          agent' =
            IF swap.old
              THEN [agent EXCEPT
                      !.running = swap.new,
                      !.handled = @ + 1,
                      !.queue = Append(Tail(@),
                                       OperationErr(e.name, "already running", 0))]
            ELSE [agent EXCEPT
                    !.running = swap.new,
                    !.handled = @ + 1,
                    !.queue = Tail(@),
                    !.tasks = Append(@, [name |-> e.name, pc |-> "future",
                                         result |-> "", cleared |-> FALSE,
                                         seen |-> agent.delivered])]
    /\ AgentUnchanged

\* The event loop takes OperationOk or OperationErr: a notification.
AgentNotify ==
    /\ agent.queue # <<>>
    /\ Head(agent.queue).kind \in {"OperationOk", "OperationErr"}
    /\ agent' = [agent EXCEPT
                   !.handled = @ + 1,
                   !.queue = Tail(@),
                   !.delivered = @ \cup ({Head(agent.queue).task} \ {0})]
    /\ AgentUnchanged

\* The spawned task: f(cfg).await returns Ok or Err.
AgentFutureReturns(t, result) ==
    /\ t \in DOMAIN agent.tasks
    /\ agent.tasks[t].pc = "future"
    /\ agent' = [agent EXCEPT !.tasks[t].pc = TaskPcAfter("future"),
                              !.tasks[t].result = result]
    /\ AgentUnchanged

\* The spawned task: running.store(false, SeqCst).
AgentClearRunning(t) ==
    /\ t \in DOMAIN agent.tasks
    /\ agent.tasks[t].pc = "store"
    /\ agent' = [agent EXCEPT !.running = FALSE,
                              !.tasks[t].pc = TaskPcAfter("store"),
                              !.tasks[t].cleared = TRUE]
    /\ AgentUnchanged

\* The spawned task: proxy.send_event of OperationOk or OperationErr.
AgentPostCompletion(t) ==
    /\ t \in DOMAIN agent.tasks
    /\ agent.tasks[t].pc = "post"
    /\ agent' = [agent EXCEPT
                   !.tasks[t].pc = TaskPcAfter("post"),
                   !.queue = Append(@, IF agent.tasks[t].result = "Ok"
                                         THEN OperationOk(agent.tasks[t].name, t)
                                       ELSE OperationErr(agent.tasks[t].name,
                                                         "operation failed", t))]
    /\ AgentUnchanged

(***************************************************************************)
(* cli/setup_agent.rs: run, on one machine.  The file is the agent's       *)
(* config file as confy keeps it: Missing, or the configuration stored     *)
(* last.  Of a configuration the model keeps the target, max_size and      *)
(* autostart_enabled; an Option argument is a sequence of at most one      *)
(* element.                                                                *)
(***************************************************************************)
default_agent_config ==
    [target |-> "", max_size |-> DEFAULT_MAX_SIZE, autostart_enabled |-> FALSE]

Missing == [exists |-> FALSE, config |-> default_agent_config]

Stored(config) == [exists |-> TRUE, config |-> config]

\* str::trim, on the targets of the model.
trim(target) == IF target = " " THEN "" ELSE target

SetupTargets == {" ", "user@host"}

SetupArgs ==
    [target : SetupTargets, max_size : {<<>>, <<0>>, <<MaxPayload>>},
     no_autostart : BOOLEAN, dry_run : BOOLEAN]

SetupAt ==
    [pc |-> "idle",
     args |-> [target |-> "", max_size |-> <<>>, no_autostart |-> FALSE, dry_run |-> FALSE],
     config |-> default_agent_config,
     file |-> Missing,
     runs |-> 0,
     refresh |-> "none",   \* history: the outcome of autostart::refresh in this run
     actions |-> <<>>]     \* history: the autostart actions of this run

SetupUnchanged ==
    UNCHANGED <<store, conns, accepted, setLog, ackedVer, proxy, call, lock, start, fleet, agent>>

apply_config_set(config, args) ==
    [config EXCEPT !.target = args.target,
                   !.max_size = IF args.max_size = <<>> THEN @ ELSE args.max_size[1]]

validate_config(config) ==
    /\ trim(config.target) # ""
    /\ config.max_size # 0

\* confy::load, as load_config calls it.  A file that is there is read and
\* parsed.  A file that is not there is created with AgentConfig::default(),
\* which is returned; when it cannot be created the call fails and the
\* file is still missing.
load_config(file, ok) ==
    IF file.exists
    THEN [ok |-> ok, config |-> file.config, file |-> file]
    ELSE IF ok
         THEN [ok |-> TRUE, config |-> default_agent_config,
               file |-> Stored(default_agent_config)]
         ELSE [ok |-> FALSE, config |-> default_agent_config, file |-> Missing]

\* confy::store, as store_config calls it.
store_config(file, config, ok) == IF ok THEN Stored(config) ELSE file

\* setup-agent is started; the check of --target.
SetupRun(args) ==
    /\ setup.pc \in {"idle", "done", "failed"}
    /\ setup.runs < MaxRuns
    /\ setup' = [setup EXCEPT !.pc = IF trim(args.target) = "" THEN "failed" ELSE "load",
                              !.args = args,
                              !.runs = @ + 1,
                              !.refresh = "none",
                              !.actions = <<>>]
    /\ SetupUnchanged

\* The configuration is loaded; a load that failed on a missing file gives
\* the default configuration, and any other failure ends the run.
SetupLoadConfig(ok) ==
    /\ setup.pc = "load"
    /\ \E l \in {load_config(setup.file, ok)} :
          setup' = [setup EXCEPT !.pc = IF l.ok \/ ~l.file.exists THEN "apply" ELSE "failed",
                                 !.config = IF l.ok THEN l.config ELSE default_agent_config,
                                 !.file = l.file]
    /\ SetupUnchanged

\* The arguments are applied and the configuration validated; a dry run
\* prints and returns.
SetupApply ==
    /\ setup.pc = "apply"
    /\ \E config \in {[apply_config_set(setup.config, setup.args)
                          EXCEPT !.autostart_enabled = ~setup.args.no_autostart]} :
          setup' = [setup EXCEPT !.config = config,
                                 !.pc = IF ~validate_config(config) THEN "failed"
                                        ELSE IF setup.args.dry_run THEN "done"
                                        ELSE "store"]
    /\ SetupUnchanged

\* The first store_config: with autostart wanted, of autostart_enabled = false.
SetupStoreConfig(ok) ==
    /\ setup.pc = "store"
    /\ \E config \in {[setup.config EXCEPT !.autostart_enabled =
                                              IF ~setup.args.no_autostart THEN FALSE ELSE @]} :
          setup' = [setup EXCEPT !.config = config,
                                 !.file = store_config(@, config, ok),
                                 !.pc = IF ok THEN "autostart" ELSE "failed"]
    /\ SetupUnchanged

\* autostart::refresh, or autostart::disable with --no-autostart.
SetupAutostart(ok) ==
    /\ setup.pc = "autostart"
    /\ IF ~setup.args.no_autostart
       THEN setup' = [setup EXCEPT !.actions = Append(@, "refresh"),
                                   !.refresh = IF ok THEN "ok" ELSE "failed",
                                   !.config.autostart_enabled = IF ok THEN TRUE ELSE @,
                                   !.pc = IF ok THEN "store_enabled" ELSE "failed"]
       ELSE setup' = [setup EXCEPT !.actions = Append(@, "disable"),
                                   !.pc = IF ok THEN "done" ELSE "failed"]
    /\ SetupUnchanged

\* The second store_config, of autostart_enabled = true.
SetupStoreEnabled(ok) ==
    /\ setup.pc = "store_enabled"
    /\ setup' = [setup EXCEPT !.file = store_config(@, setup.config, ok),
                              !.pc = IF ok THEN "done" ELSE "failed"]
    /\ SetupUnchanged

DaemonInit ==
    /\ store = None
    /\ conns = [c \in ConnIds |-> FreeConn]
    /\ accepted = 0
    /\ setLog = <<>>
    /\ ackedVer = 0
    /\ call = NoCall
    /\ lock = 0
    /\ start = Listening
    /\ fleet = FleetAt
    /\ agent = AgentAt
    /\ setup = SetupAt

\* The daemon alone: no proxy runs.
Init ==
    /\ DaemonInit
    /\ proxy = ProxyAt(FALSE)

Next ==
    \/ \E c \in ConnIds, uid \in PeerUids : Accept(c, uid)
    \/ \E c \in ConnIds, s \in ClientStreams : ClientSend(c, s)
    \/ \E c \in ConnIds : VerifyPeer(c)
    \/ \E c \in ConnIds : ReadFrame(c)
    \/ \E c \in ConnIds : ReadTimeout(c)
    \/ \E c \in ConnIds : LockStore(c)
    \/ \E c \in ConnIds : HandleRequest(c)
    \/ \E c \in ConnIds, ok \in BOOLEAN : WriteErrorResponse(c, ok)
    \/ \E c \in ConnIds, outcome \in {"ok", "fail", "timeout"} : WriteResponse(c, outcome)

Spec == Init /\ [][Next]_vars

\* The start of the daemon, and the first connections it accepts.
StartInit ==
    /\ store = None
    /\ conns = [c \in ConnIds |-> FreeConn]
    /\ accepted = 0
    /\ setLog = <<>>
    /\ ackedVer = 0
    /\ call = NoCall
    /\ lock = 0
    /\ proxy = ProxyAt(FALSE)
    /\ start \in StartStates
    /\ fleet = FleetAt
    /\ agent = AgentAt
    /\ setup = SetupAt

StartNext ==
    \/ \E ok \in BOOLEAN : CreateDirAll(ok)
    \/ \E ok \in BOOLEAN : SetPermissionsParent(ok)
    \/ \E ok \in BOOLEAN : RemoveFile(ok)
    \/ set_umask
    \/ \E ok \in BOOLEAN : BindListener(ok)
    \/ UmaskRestore
    \/ \E ok \in BOOLEAN : SetPermissionsSocket(ok)
    \/ \E c \in ConnIds, uid \in PeerUids : Accept(c, uid)

StartSpec == StartInit /\ [][StartNext]_vars

\* Daemons and proxies on one socket path.
FleetInit ==
    /\ DaemonInit
    /\ proxy = ProxyAt(FALSE)

FleetNext ==
    \/ \E d \in DaemonIds : FleetStartDaemon(d)
    \/ \E d \in DaemonIds : FleetPathExists(d)
    \/ \E d \in DaemonIds : FleetRemoveFile(d)
    \/ \E d \in DaemonIds : FleetBind(d)
    \/ \E d \in DaemonIds : FleetSetPermissions(d)
    \/ \E p \in ClientIds, spawn_ok \in BOOLEAN : FleetConnect(p, spawn_ok)
    \/ \E p \in ClientIds : FleetServeSet(p)

FleetSpec == FleetInit /\ [][FleetNext]_vars

\* The agent, from the start of its event loop.
AgentInit ==
    /\ DaemonInit
    /\ proxy = ProxyAt(FALSE)

AgentNext ==
    \/ \E name \in {"push", "pull", "peek"}, source \in {"menu", "hotkey"} :
          AgentTrigger(name, source)
    \/ AgentStartOperation
    \/ AgentNotify
    \/ \E t \in 1..MaxTriggers, result \in {"Ok", "Err"} : AgentFutureReturns(t, result)
    \/ \E t \in 1..MaxTriggers : AgentClearRunning(t)
    \/ \E t \in 1..MaxTriggers : AgentPostCompletion(t)

AgentSpec == AgentInit /\ [][AgentNext]_vars

\* Runs of setup-agent on a machine that starts without a config file.
SetupInit ==
    /\ DaemonInit
    /\ proxy = ProxyAt(FALSE)

SetupNext ==
    \/ \E args \in SetupArgs : SetupRun(args)
    \/ \E ok \in BOOLEAN : SetupLoadConfig(ok)
    \/ SetupApply
    \/ \E ok \in BOOLEAN : SetupStoreConfig(ok)
    \/ \E ok \in BOOLEAN : SetupAutostart(ok)
    \/ \E ok \in BOOLEAN : SetupStoreEnabled(ok)

SetupSpec == SetupInit /\ [][SetupNext]_vars

\* One run of the proxy, with or without --autostart-daemon.
ProxyInit ==
    /\ DaemonInit
    /\ \E autostart \in BOOLEAN, reader \in {"reads", "stalls"} :
          proxy = [ProxyAt(autostart) EXCEPT !.stdout_reader = reader]

ProxyNext ==
    \/ \E s \in ProxyStdinStreams : ProxyReadStdin(s)
    \/ \E outcome \in {"ok", "err", "timeout"}, spawn_ok \in BOOLEAN :
          ProxyConnect(outcome, spawn_ok)
    \/ \E ok \in BOOLEAN : ProxyWriteConnectError(ok)
    \/ \E outcome \in {"ok", "fail", "timeout"} : ProxyWriteRequest(outcome)
    \/ \E s \in DaemonStreams : ProxyReadResponse(s)
    \/ \E ok \in BOOLEAN : ProxyWriteStdout(ok)

ProxySpec == ProxyInit /\ [][ProxyNext]_vars

\* The same run on a runtime that polls every future that can make progress:
\* a step that can be taken is taken.
ProxyFairSpec == ProxySpec /\ WF_vars(ProxyNext)

(***************************************************************************)
(* The functions of the library, called once on an argument drawn from a   *)
(* bounded set: the framing, the codec, and the exit codes of the client.  *)
(***************************************************************************)
\* cli: handle_response for push and pull, as the exit code of the process
\* (0 where it returns Ok(())).
handle_response(response, allow_empty) ==
    LET kind == response.kind
    IN CASE kind.tag = "Ok" -> 0
         [] kind.tag = "Empty" -> IF allow_empty THEN 0 ELSE 2
         [] kind.tag = "Error" ->
              (CASE kind.code \in {"invalid_request", "invalid_utf8", "version_mismatch"}
                      -> 2
                 [] kind.code = "payload_too_large" -> 3
                 [] kind.code = "daemon_not_running" -> 4
                 [] kind.code = "internal" -> 2)
         [] kind.tag \in {"Value", "Meta"} -> 0

\* All sequences over the set bytes of length at most n.
RECURSIVE SeqsUpTo(_, _)
SeqsUpTo(bytes, n) ==
    IF n = 0 THEN {<<>>}
    ELSE LET shorter == SeqsUpTo(bytes, n - 1)
         IN shorter \cup {Append(q, b) : q \in shorter, b \in bytes}

\* Payloads of a frame, and the max_size of its reader.
Payloads == SeqsUpTo({0, 255}, MaxPayload)
MaxSizes == 0..(MaxPayload + 1)

\* What precedes a frame on a noisy stream: the bytes of the magic, in any
\* order, so that pieces of the magic and the magic itself occur.
Garbage == SeqsUpTo({83, 67, 66, 49}, MaxGarbage)
ScanCaps == 0..MaxScan
ResyncPayloads == {<<>>, <<7, 1>>}

\* Requests and responses with ids and timestamps on both sides of the widths
\* of the varint encoding.
CodecIds == {0, 250, 251, 65535, 65536}
CodecTimes == {-65, -1, 0, 123, 70000}
CodecValues ==
    {[content_type |-> ct, data |-> d, created_at |-> t] :
        ct \in {CONTENT_TYPE_TEXT, CONTENT_TYPE_PNG, <<>>},
        d \in {<<>>, <<97>>, <<255, 0>>},
        t \in CodecTimes}
CodecRequests ==
    {SetRequest(id, v) : id \in CodecIds, v \in CodecValues}
    \cup {GetRequest(id) : id \in CodecIds}
    \cup {PeekMetaRequest(id) : id \in CodecIds}
CodecKinds ==
    {KindOk, KindEmpty}
    \cup {KindValue(v) : v \in CodecValues}
    \cup {KindMeta(v.content_type, Len(v.data), v.created_at) : v \in CodecValues}
    \cup {KindError(ErrorCodes[i], m) :
            i \in 1..Len(ErrorCodes), m \in {<<>>, MSG_READ_TIMEOUT}}
CodecResponses == {Response(id, k) : id \in {0, 300}, k \in CodecKinds}

Call(op, args, result) == [op |-> op, args |-> args, result |-> result]

CallUnchanged == UNCHANGED <<store, conns, accepted, setLog, ackedVer, proxy, lock, start, fleet, agent, setup>>

\* write_frame_payload(p), then read_frame_payload(max_size) on its bytes.
CallFrame(p, max_size) ==
    /\ call = NoCall
    /\ \E bs \in {write_frame_payload(p)} :
          call' = Call("frame", [payload |-> p, max_size |-> max_size],
                       read_frame_payload(bs, TRUE, max_size))
    /\ CallUnchanged

\* read_frame_payload_resync on g followed by the frame of p.
CallResync(g, p, max_scan_bytes) ==
    /\ call = NoCall
    /\ \E bs \in {g \o write_frame_payload(p)} :
          call' = Call("resync",
                       [garbage |-> g, payload |-> p, max_scan_bytes |-> max_scan_bytes],
                       read_frame_payload_resync(bs, TRUE, MaxPayload, max_scan_bytes))
    /\ CallUnchanged

\* encode_message, then decode_message, of a Request: on all the bytes, and
\* on all but the last.
CallRequestCodec(r) ==
    /\ call = NoCall
    /\ \E e \in {encode_request(r)} :
          call' = Call("request_codec", [request |-> r],
                       [decoded |-> decode_request(e),
                        cut |-> decode_request(Take(e, Len(e) - 1))])
    /\ CallUnchanged

CallResponseCodec(r) ==
    /\ call = NoCall
    /\ \E e \in {encode_response(r)} :
          call' = Call("response_codec", [response |-> r],
                       [decoded |-> decode_response(e),
                        cut |-> decode_response(Take(e, Len(e) - 1))])
    /\ CallUnchanged

\* The exit code of the client and of the proxy for the same Error response.
CallExitCode(code) ==
    /\ call = NoCall
    /\ \E r \in {Response(7, KindError(code, MSG_READ_TIMEOUT))} :
          call' = Call("exit_code", [code |-> code],
                       [client |-> handle_response(r, FALSE),
                        proxy |-> map_error_code(code)])
    /\ CallUnchanged

\* The values of a Set handed to handle_request: each content type, with
\* data on both sides of max_size, valid UTF-8 (0) or not (255).
ValidateValues ==
    {Value(ct, d) : ct \in {CONTENT_TYPE_TEXT, CONTENT_TYPE_PNG, CONTENT_TYPE_OCTET},
                    d \in Payloads}

\* handle_request(Set { value }) on an empty store.
CallSet(v, max_size) ==
    /\ call = NoCall
    /\ \E h \in {handle_request(SetRequest(7, v), None, max_size)} :
          call' = Call("set", [value |-> v, max_size |-> max_size],
                       [kind |-> h.response.kind, state |-> h.state])
    /\ CallUnchanged

\* An environment variable: not set, or set to the given bytes.
EnvVar(set, bytes) == [set |-> set, bytes |-> bytes]

\* env::var: Ok with the value when the variable is set and its value is
\* valid Unicode, Err when it is not present and when it is not Unicode.
env_var(v) == v.set /\ Utf8Valid(v.bytes)

\* Path::join of a relative component: the separator is added unless the
\* base is empty or ends with one.
path_join(base, component) ==
    IF base = <<>> \/ base[Len(base)] = 47 THEN base \o component
    ELSE base \o <<47>> \o component

\* "ssh_clipboard", and "daemon.sock"
SSH_CLIPBOARD == <<115, 115, 104, 95, 99, 108, 105, 112, 98, 111, 97, 114, 100>>
DAEMON_SOCK == <<100, 97, 101, 109, 111, 110, 46, 115, 111, 99, 107>>

\* Variant: TMPDIR is looked at before XDG_RUNTIME_DIR.
default_socket_path_tmpdir_first(xdg_runtime_dir, tmpdir, uid) ==
    IF env_var(tmpdir)
      THEN path_join(path_join(tmpdir.bytes,
                               SSH_CLIPBOARD \o <<45>> \o DecimalBytes(uid)),
                     DAEMON_SOCK)
    ELSE IF env_var(xdg_runtime_dir)
      THEN path_join(path_join(xdg_runtime_dir.bytes, SSH_CLIPBOARD), DAEMON_SOCK)
    ELSE path_join(path_join(<<47, 116, 109, 112>>,
                             SSH_CLIPBOARD \o <<45>> \o DecimalBytes(uid)),
                   DAEMON_SOCK)

\* default_socket_path, given the two environment variables and getuid().
default_socket_path(xdg_runtime_dir, tmpdir, uid) ==
    IF env_var(xdg_runtime_dir)
      THEN path_join(path_join(xdg_runtime_dir.bytes, SSH_CLIPBOARD), DAEMON_SOCK)
    ELSE IF env_var(tmpdir)
      THEN path_join(path_join(tmpdir.bytes,
                               SSH_CLIPBOARD \o <<45>> \o DecimalBytes(uid)),
                     DAEMON_SOCK)
    ELSE path_join(path_join(<<47, 116, 109, 112>>,
                             SSH_CLIPBOARD \o <<45>> \o DecimalBytes(uid)),
                   DAEMON_SOCK)

\* The values of XDG_RUNTIME_DIR and TMPDIR: not set, "/r", "/t/", the empty
\* string, and two bytes that are not Unicode.
EnvValues ==
    {EnvVar(FALSE, <<>>), EnvVar(TRUE, <<47, 114>>), EnvVar(TRUE, <<47, 116, 47>>),
     EnvVar(TRUE, <<>>), EnvVar(TRUE, <<47, 255>>)}

CallDefaultSocketPath(xdg_runtime_dir, tmpdir, uid) ==
    /\ call = NoCall
    /\ call' = Call("default_socket_path",
                    [xdg_runtime_dir |-> xdg_runtime_dir, tmpdir |-> tmpdir, uid |-> uid],
                    default_socket_path(xdg_runtime_dir, tmpdir, uid))
    /\ CallUnchanged

\* Streams that begin with a header, whole or cut: the magic or four other
\* bytes, a version on either side of VERSION, a length up to MaxPayload, and
\* the payload or nothing.
HeaderStreams ==
    UNION {{Take(m \o ToLeBytes(v, 2) \o ToLeBytes(len, 4) \o Rep(7, len), n) :
               m \in {MAGIC, <<66, 65, 68, 33>>, <<83, 67, 66, 50>>},
               v \in {VERSION - 1, VERSION, VERSION + 1, 258},
               n \in {4, 6, 10, 10 + len}} :
           len \in 0..MaxPayload}

\* read_frame_payload(max_size) on a stream that ends after bs.
CallReadStrict(bs, max_size) ==
    /\ call = NoCall
    /\ call' = Call("read_strict", [bytes |-> bs, max_size |-> max_size],
                    read_frame_payload(bs, TRUE, max_size))
    /\ CallUnchanged

\* A usize of a 64-bit target as four 16-bit limbs, the least significant
\* first; Usize(n) is the usize of a small number.
USIZE_MAX == <<65535, 65535, 65535, 65535>>
Usize(n) == <<n % 65536, (n \div 65536) % 65536, 0, 0>>

\* a + b on usize: the sum modulo 2^64, and whether it passed usize::MAX.
usize_add(a, b) ==
    LET s1 == a[1] + b[1]
        s2 == a[2] + b[2] + (s1 \div 65536)
        s3 == a[3] + b[3] + (s2 \div 65536)
        s4 == a[4] + b[4] + (s3 \div 65536)
    IN [value |-> <<s1 % 65536, s2 % 65536, s3 % 65536, s4 % 65536>>,
        overflow |-> s4 >= 65536]

\* A usize as a number of the model, for comparing it with the length of a
\* byte string of the model: itself below 2^31 - 1, and 2^31 - 1 from there on.
usize_clamp(a) ==
    IF a[3] = 0 /\ a[4] = 0 /\ a[2] < 32768 THEN a[1] + 65536 * a[2] ELSE 2147483647

\* run_proxy: max_size + RESPONSE_OVERHEAD, the bound of the response read.
\* The addition is unchecked: a build with overflow checks (debug) panics
\* where the sum passes usize::MAX, a build without them (release) wraps.
response_limit(max_size, overflow_checks) ==
    Bind(usize_add(max_size, Usize(RESPONSE_OVERHEAD)), LAMBDA sum :
        [panic |-> sum.overflow /\ overflow_checks, limit |-> usize_clamp(sum.value)])

\* A daemon and a proxy with the same max_size: handle_request stores the
\* value of a Set, a Get is answered from it, and the proxy reads the frame
\* of that response under its bound.
CallProxyResponse(v, max_size, overflow_checks) ==
    /\ call = NoCall
    /\ \E set \in {handle_request(SetRequest(7, v), None, usize_clamp(max_size))} :
       \E get \in {handle_request(GetRequest(300), set.state, usize_clamp(max_size))} :
       \E payload \in {encode_response(get.response)},
          lim \in {response_limit(max_size, overflow_checks)} :
          call' = Call("proxy_response",
                       [value |-> v, max_size |-> max_size,
                        overflow_checks |-> overflow_checks],
                       [stored |-> set.state.some,
                        tag |-> get.response.kind.tag,
                        len |-> Len(payload),
                        limit |-> lim.limit,
                        status |-> IF lim.panic THEN "panic"
                                   ELSE read_frame_payload(write_frame_payload(payload),
                                                           TRUE, lim.limit).status])
    /\ CallUnchanged

\* Variant: a max_size of 0 is taken as it is.
normalized_max_size_raw(max_size) == max_size

\* ClientConfig::normalized_max_size
normalized_max_size(max_size) ==
    IF max_size = 0 THEN DEFAULT_MAX_SIZE ELSE max_size

\* send_request, up to spawn_ssh_proxy.  The test looks at the encoded
\* request through payload.len() only: payload_len is that length.  ssh is
\* whether spawn_ssh_proxy was called; where it was, the response is the one
\* that comes back through ssh, which is not part of this model.
send_request(max_size, request_id, payload_len) ==
    IF payload_len > normalized_max_size(max_size)
      THEN [ssh |-> FALSE,
            response |-> Response(request_id,
                                  KindError("payload_too_large", MSG_PAYLOAD_TOO_LARGE))]
    ELSE [ssh |-> TRUE, response |-> NoResponse]

\* send_request on a request of the codec's, and on a request whose value is
\* longer by pad bytes of data than the model can write out (its encoding is
\* longer by pad bytes and by the growth of the length prefix, which is 4
\* bytes from 1 byte to the 5 of a length of 65536 and more).
CallSendRequest(r, pad, max_size) ==
    /\ call = NoCall
    /\ \E n \in {Len(encode_request(r)) + (IF pad = 0 THEN 0 ELSE pad + 4)} :
          call' = Call("send_request",
                       [request |-> r, payload_len |-> n, max_size |-> max_size],
                       send_request(max_size, r.request_id, n))
    /\ CallUnchanged

CallInit ==
    /\ DaemonInit
    /\ proxy = ProxyAt(FALSE)

CallNext ==
    \/ \E p \in Payloads, max_size \in MaxSizes : CallFrame(p, max_size)
    \/ \E g \in Garbage, p \in ResyncPayloads, max_scan_bytes \in ScanCaps :
          CallResync(g, p, max_scan_bytes)
    \/ \E r \in CodecRequests : CallRequestCodec(r)
    \/ \E r \in CodecResponses : CallResponseCodec(r)
    \/ \E i \in 1..Len(ErrorCodes) : CallExitCode(ErrorCodes[i])
    \/ \E v \in ValidateValues, max_size \in MaxSizes : CallSet(v, max_size)
    \/ \E bs \in HeaderStreams, max_size \in {0, 1} : CallReadStrict(bs, max_size)
    \/ \E x \in EnvValues, t \in EnvValues, uid \in {0, DaemonUid} :
          CallDefaultSocketPath(x, t, uid)
    \/ \E n \in {0, MaxPayload, RESPONSE_OVERHEAD + MaxPayload},
          max_size \in {Usize(0), Usize(MaxPayload), Usize(RESPONSE_OVERHEAD + MaxPayload),
                        <<64511, 65535, 65535, 65535>>,   \* usize::MAX - 1024
                        <<64512, 65535, 65535, 65535>>,   \* usize::MAX - 1023
                        USIZE_MAX},
          overflow_checks \in BOOLEAN :
          CallProxyResponse(Value(CONTENT_TYPE_PNG, Rep(97, n)), max_size, overflow_checks)
    \/ \E id \in CodecIds, n \in 0..MaxPayload,
          pad \in {0, DEFAULT_MAX_SIZE - 18, DEFAULT_MAX_SIZE},
          max_size \in {0, DEFAULT_MAX_SIZE + 1} \cup 14..(15 + MaxPayload) :
          CallSendRequest(SetRequest(id, Value(CONTENT_TYPE_PNG, Rep(97, n))), pad, max_size)

CallSpec == CallInit /\ [][CallNext]_vars

(***************************************************************************)
(* Properties of the daemon.                                               *)
(***************************************************************************)
Handling == {"verify", "read", "handle", "write_err", "write"}
Answered(c) == conns[c].response # NoResponse
ErrorResponse(c, code) ==
    conns[c].response.kind.tag = "Error" /\ conns[c].response.kind.code = code

\* The request a peer's bytes hold when they are one whole frame whose payload
\* decodes, whatever max_size is: [ok, val, len], len the payload's length.
SentRequest(c) ==
    LET f == read_frame_payload(conns[c].inbuf, conns[c].eof, 16777215)
        d == decode_request(f.payload)
    IN [ok |-> conns[c].sent /\ f.status = "ok" /\ d.ok,
        val |-> d.val, len |-> Len(f.payload)]

\* C1: the stored value, if there is one, has a whitelisted content type, at
\* most max_size bytes of data, and valid UTF-8 data when it is text.
StoredValueValid ==
    store.some =>
        /\ store.value.content_type \in {CONTENT_TYPE_TEXT, CONTENT_TYPE_PNG}
        /\ Len(store.value.data) <= MaxSize
        /\ store.value.content_type = CONTENT_TYPE_TEXT => Utf8Valid(store.value.data)

\* C1's case: a text value is stored while a Set of text that is not UTF-8 and
\* a Set of another content type have been turned down.
StoredValueValidWitness ==
    /\ store = Some(Value(CONTENT_TYPE_TEXT, <<195, 169>>))
    /\ \E c \in ConnIds : conns[c].pc = "closed" /\ ErrorResponse(c, "invalid_utf8")
    /\ \E c \in ConnIds : conns[c].pc = "closed" /\ ErrorResponse(c, "invalid_request")
                          /\ conns[c].framed

\* C2: a Get sent after the Ok of a Set S was written is answered with the
\* value of S or of a Set that took the lock after S and before the Get, never
\* with Empty or an older value.
GetSeesAckedSet ==
    \A c \in ConnIds :
        LET r == SentRequest(c)
        IN (/\ conns[c].pc \in {"write", "closed"}
            /\ conns[c].framed
            /\ r.ok /\ r.val.kind = "Get"
            /\ conns[c].ackedAtSend > 0)
           => /\ conns[c].response.kind.tag = "Value"
              /\ conns[c].readVer >= conns[c].ackedAtSend
              /\ \E k \in conns[c].ackedAtSend .. conns[c].readVer :
                    conns[c].response.kind.value = setLog[k]
              /\ conns[c].response.kind.value = setLog[conns[c].readVer]

\* C2's case: the Get was sent after the first Set's Ok, a second Set with
\* another value took the lock before the Get did, and the Get returns the
\* second value.
GetSeesAckedSetWitness ==
    \E c \in ConnIds :
        /\ conns[c].pc = "closed"
        /\ SentRequest(c).ok /\ SentRequest(c).val.kind = "Get"
        /\ conns[c].ackedAtSend = 1
        /\ conns[c].readVer = 2
        /\ setLog[1] # setLog[2]
        /\ conns[c].response.kind = KindValue(setLog[2])

\* C3: a step in which handle_request turns a Set down (validate_set fails)
\* leaves the stored value as it was, and with it the answer to a Get.
RejectedSetStep(c) ==
    /\ conns[c].pc = "handle"
    /\ conns'[c].pc = "write"
    /\ LET d == decode_request(conns[c].payload)
       IN d.ok /\ d.val.kind = "Set" /\ validate_set(d.val.value, MaxSize) # "Ok"

RejectedSetKeepsValue ==
    [][\A c \in ConnIds :
          RejectedSetStep(c) =>
              /\ store' = store
              /\ conns'[c].response.kind.tag = "Error"
              /\ handle_request(GetRequest(1), store', MaxSize).response
                   = handle_request(GetRequest(1), store, MaxSize).response]_vars

\* C3's case: a value is stored, and a Set of text that is not UTF-8 has just
\* been turned down.
RejectedSetKeepsValueWitness ==
    \E c \in ConnIds :
        /\ conns[c].pc = "write"
        /\ ErrorResponse(c, "invalid_utf8")
        /\ store = Some(Value(CONTENT_TYPE_PNG, Rep(255, PngFit)))

\* A same-uid peer has sent one whole frame holding a Set that validate_set
\* accepts.
ValidSetSent(c) ==
    /\ conns[c].peer_uid = DaemonUid
    /\ SentRequest(c).ok
    /\ SentRequest(c).val.kind = "Set"
    /\ LET v == SentRequest(c).val.value
       IN /\ v.content_type \in {CONTENT_TYPE_TEXT, CONTENT_TYPE_PNG}
          /\ Len(v.data) <= MaxSize
          /\ v.content_type = CONTENT_TYPE_TEXT => Utf8Valid(v.data)

\* The answer to a valid Set: Ok with the request's id.
AnsweredOk(c) ==
    /\ conns[c].pc # "write_err"
    /\ Answered(c) => conns[c].response = Response(SentRequest(c).val.request_id, KindOk)

\* C4 as claimed: every valid Set of a same-uid peer, up to data.len() =
\* max_size, is answered Ok with its id.
ValidSetAnsweredOk ==
    \A c \in ConnIds :
        (conns[c].pc \in {"handle", "write_err", "write", "closed"} /\ ValidSetSent(c))
        => AnsweredOk(c)

\* C4, amended: every valid Set of a same-uid peer whose encoded request is at
\* most max_size bytes long is answered Ok with its id, and is the stored
\* value when handle_request returns.
FittingSetAnsweredOk ==
    /\ [](\A c \in ConnIds :
            (/\ conns[c].pc \in {"handle", "write_err", "write", "closed"}
             /\ ValidSetSent(c)
             /\ SentRequest(c).len <= MaxSize)
            => AnsweredOk(c))
    /\ [][\A c \in ConnIds :
            (/\ conns[c].pc = "handle" /\ conns'[c].pc = "write"
             /\ ValidSetSent(c)
             /\ SentRequest(c).len <= MaxSize)
            => store' = Some(SentRequest(c).val.value)]_vars

\* C4's case: a Set whose encoded request is exactly max_size bytes long has
\* been answered Ok and is stored.
FittingSetAnsweredOkWitness ==
    \E c \in ConnIds :
        /\ conns[c].pc = "closed"
        /\ ValidSetSent(c)
        /\ SentRequest(c).len = MaxSize
        /\ conns[c].response.kind = KindOk
        /\ Len(conns[c].out) = 1
        /\ store = Some(SentRequest(c).val.value)

\* C5: a response carries the request_id of the request decoded from the
\* frame's payload, and 0 when no payload was read or it did not decode; the
\* frame the peer receives holds this response.
ExpectedRequestId(c) ==
    LET d == decode_request(conns[c].payload)
    IN IF conns[c].framed /\ d.ok THEN d.val.request_id ELSE 0

ResponseCarriesRequestId ==
    \A c \in ConnIds :
        /\ Answered(c) => conns[c].response.request_id = ExpectedRequestId(c)
        /\ \A i \in 1..Len(conns[c].out) :
              LET f == read_frame_payload(conns[c].out[i], FALSE, MaxSize + RESPONSE_OVERHEAD)
              IN /\ f.status = "ok"
                 /\ decode_response(f.payload).ok
                 /\ decode_response(f.payload).val.request_id = ExpectedRequestId(c)

\* C5's case: a Get with id 300 has been answered with id 300 while a
\* connection whose read timed out has been answered with id 0.
ResponseCarriesRequestIdWitness ==
    /\ \E c \in ConnIds :
          /\ conns[c].pc = "closed" /\ Len(conns[c].out) = 1
          /\ conns[c].response.request_id = 300
    /\ \E c \in ConnIds :
          /\ conns[c].pc = "closed" /\ Len(conns[c].out) = 1
          /\ conns[c].response = ReadTimeoutResponse

\* C6: on a connection the handler calls read_frame_payload at most once and
\* write_frame_payload at most once, and once it has written it has returned.
OneRequestOneResponse ==
    \A c \in ConnIds :
        /\ conns[c].nreads <= 1
        /\ conns[c].nwrites <= 1
        /\ Len(conns[c].out) <= conns[c].nwrites
        /\ conns[c].nwrites = 1 <=> conns[c].pc = "closed"
        /\ conns[c].pc \in {"handle", "write"} => conns[c].nreads = 1

\* C6's case: a connection has been closed after one read and one write.
OneRequestOneResponseWitness ==
    \E c \in ConnIds :
        /\ conns[c].pc = "closed"
        /\ conns[c].nreads = 1 /\ conns[c].nwrites = 1 /\ Len(conns[c].out) = 1
        /\ conns[c].response.kind.tag = "Value"

\* C7: for a peer of another uid the handler never calls read_frame_payload,
\* builds the Error invalid_request with request_id 0, writes it once (the
\* peer receives that frame or, if the write fails, nothing) and returns; no
\* step of such a connection changes the stored value.
PeerMismatchRejected ==
    /\ [](\A c \in ConnIds :
            (conns[c].pc # "free" /\ conns[c].peer_uid # DaemonUid) =>
                /\ conns[c].pc \in {"verify", "write_err", "closed"}
                /\ conns[c].nreads = 0 /\ ~conns[c].framed
                /\ conns[c].pc # "verify" =>
                      /\ conns[c].response.request_id = 0
                      /\ ErrorResponse(c, "invalid_request")
                /\ conns[c].pc = "closed" =>
                      /\ conns[c].nwrites = 1
                      /\ conns[c].out \in {<<>>, <<ResponseFrame(conns[c].response)>>})
    /\ [][\A c \in ConnIds :
            (conns[c].peer_uid # DaemonUid /\ conns[c].pc \in Handling
             /\ conns'[c] # conns[c])
            => store' = store]_vars

\* C7's case: a value is stored, and a peer of another uid that had sent a
\* request has received the one error frame and been closed.
PeerMismatchRejectedWitness ==
    \E c \in ConnIds :
        /\ conns[c].pc = "closed"
        /\ conns[c].peer_uid # DaemonUid
        /\ conns[c].sent
        /\ Len(conns[c].out) = 1
        /\ store.some

\* C8: the response to a failed peer credential check says "peer credential
\* check failed" and does not depend on the uids: two peers of different uids
\* that are turned down get the same response.
PeerRejectionUniform ==
    \A c1, c2 \in ConnIds :
        (/\ conns[c1].peer_uid # DaemonUid /\ conns[c1].pc \in {"write_err", "closed"}
         /\ conns[c2].peer_uid # DaemonUid /\ conns[c2].pc \in {"write_err", "closed"}
         /\ conns[c1].peer_uid # conns[c2].peer_uid)
        => /\ conns[c1].response = conns[c2].response
           /\ conns[c1].response.kind.message = MSG_PEER_CHECK_FAILED

\* C9 as claimed: a connection that has ended with an Error response, or
\* whose handler returned an error (its response was not written), has stored
\* nothing.
ErrorPathStoredNothing ==
    \A c \in ConnIds :
        (/\ conns[c].pc = "closed"
         /\ conns[c].response.kind.tag = "Error" \/ conns[c].result = "Err")
        => conns[c].setVer = 0

\* C9, amended: no step of a connection whose response is an Error changes the
\* stored value, and neither does a response write, failed or not: a Set that
\* was stored stays stored when the write of its Ok fails.
ErrorPathKeepsValue ==
    [][\A c \in ConnIds :
          (/\ conns[c].pc \in Handling
           /\ conns'[c] # conns[c]
           /\ \/ conns'[c].response.kind.tag = "Error"
              \/ conns[c].pc \in {"write_err", "write"})
          => store' = store]_vars

\* C9's case: the write of a decode error's response has timed out, the
\* handler has returned an error, and the value stored before is still stored.
ErrorPathKeepsValueWitness ==
    \E c \in ConnIds :
        /\ conns[c].pc = "closed"
        /\ conns[c].result = "Err"
        /\ conns[c].response = DecodeErrorResponse
        /\ store = Some(Value(CONTENT_TYPE_TEXT, <<97>>))

(***************************************************************************)
(* Properties of the proxy.                                                *)
(***************************************************************************)
\* C10: a run of the proxy that has exited has written exactly one frame to
\* stdout, and that frame holds a Response.
ProxyWritesOneResponse ==
    proxy.pc = "exited" =>
        /\ Len(proxy.stdout) = 1
        /\ LET f == read_frame_payload(proxy.stdout[1], TRUE, MaxSize + RESPONSE_OVERHEAD)
           IN f.status = "ok" /\ decode_response(f.payload).ok

\* The response in the one frame on the proxy's stdout: [ok, val, rest].
StdoutResponse ==
    IF Len(proxy.stdout) # 1 THEN DecFail
    ELSE Bind(read_frame_payload(proxy.stdout[1], TRUE, MaxSize + RESPONSE_OVERHEAD),
              LAMBDA f : IF f.status = "ok" THEN decode_response(f.payload) ELSE DecFail)

\* C11: a run of the proxy that ended because reading stdin, writing to the
\* daemon or reading from the daemon failed or timed out has written one
\* Error response frame to stdout.
ProxyIoFailureAnswered ==
    (proxy.pc = "exited"
     /\ proxy.failed \in {"read_stdin", "write_request", "read_response"})
    => (StdoutResponse.ok /\ StdoutResponse.val.kind.tag = "Error")

\* C12: a run of the proxy whose connect_daemon returned an error ends, unless
\* the write to stdout itself fails, with exit code 4 and with one frame on
\* stdout: an Error daemon_not_running carrying the request_id of the payload
\* read from stdin, 0 if that payload is no Request.
ConnectFailureAnswered ==
    (proxy.pc = "exited" /\ proxy.connect_error # "") =>
        IF proxy.failed = ""
          THEN /\ proxy.exit_code = 4
               /\ StdoutResponse.ok
               /\ StdoutResponse.val.kind.tag = "Error"
               /\ StdoutResponse.val.kind.code = "daemon_not_running"
               /\ StdoutResponse.val.request_id =
                    IF decode_request(proxy.request_payload).ok
                      THEN decode_request(proxy.request_payload).val.request_id
                    ELSE 0
        ELSE proxy.failed = "write_stdout" /\ proxy.stdout = <<>>

\* C12's case: the spawn of the daemon failed in a run whose request has id
\* 300, and the run has ended with code 4 and the response for id 300.
ConnectFailureAnsweredWitness ==
    /\ proxy.pc = "exited"
    /\ proxy.connect_error = "AutostartFailed"
    /\ proxy.exit_code = 4
    /\ StdoutResponse.ok
    /\ StdoutResponse.val.request_id = 300

\* C13: a run of the proxy that relayed the daemon's response ends with code 0
\* exactly if the response decodes to a kind other than Error, and for an
\* Error with 2 for invalid_request, invalid_utf8 and version_mismatch, 3 for
\* payload_too_large, 4 for daemon_not_running and 5 for internal.
RelayedExitCode ==
    (proxy.pc = "exited" /\ proxy.connect_error = "" /\ Len(proxy.stdout) = 1) =>
        /\ proxy.exit_code = 0
             <=> (StdoutResponse.ok /\ StdoutResponse.val.kind.tag # "Error")
        /\ (StdoutResponse.ok /\ StdoutResponse.val.kind.tag = "Error") =>
             LET code == StdoutResponse.val.kind.code
             IN /\ code \in {"invalid_request", "invalid_utf8", "version_mismatch"}
                     => proxy.exit_code = 2
                /\ code = "payload_too_large" => proxy.exit_code = 3
                /\ code = "daemon_not_running" => proxy.exit_code = 4
                /\ code = "internal" => proxy.exit_code = 5

\* C13's case: the proxy has relayed an Error invalid_utf8 and ended with 2.
RelayedExitCodeWitness ==
    /\ proxy.pc = "exited"
    /\ proxy.connect_error = ""
    /\ StdoutResponse.ok
    /\ StdoutResponse.val.kind.tag = "Error"
    /\ StdoutResponse.val.kind.code = "invalid_utf8"
    /\ proxy.exit_code = 2

\* C14: with autostart, connect_daemon makes at most three attempts.
ConnectAttemptsAtMostThree ==
    proxy.autostart => proxy.attempts <= 3

(***************************************************************************)
(* Properties of the library calls.                                        *)
(***************************************************************************)
\* C15: the client and the proxy end with the same exit code for every
\* ErrorCode of a response.
ClientProxySameExitCode ==
    call.op = "exit_code" => call.result.client = call.result.proxy

OversizeFrameRejected ==
    (call.op = "frame" /\ Len(call.args.payload) > call.args.max_size) =>
        /\ call.result.status = "PayloadTooLarge"
        /\ call.result.arg = Len(call.args.payload)
        /\ call.result.consumed = 10
        /\ call.result.payload = <<>>

\* C17's case: a payload one byte longer than max_size has been refused.
OversizeFrameRejectedWitness ==
    /\ call.op = "frame"
    /\ Len(call.args.payload) = 3
    /\ call.args.max_size = 2
    /\ call.result.status = "PayloadTooLarge"

\* The magic occurs in bs at position i.
MagicAt(bs, i) == i + 3 <= Len(bs) /\ SubSeq(bs, i, i + 3) = MAGIC
HasMagic(bs) == \E i \in 1..Len(bs) : MagicAt(bs, i)

\* C18 as claimed: after any garbage no longer than max_scan_bytes the resync
\* reader returns the payload of the frame that follows, and reports at
\* least the garbage as discarded.
ResyncFindsFrame ==
    (call.op = "resync" /\ Len(call.args.garbage) <= call.args.max_scan_bytes) =>
        /\ call.result.status = "ok"
        /\ call.result.payload = call.args.payload
        /\ call.result.discarded_bytes >= Len(call.args.garbage)

\* C18, amended: after garbage no longer than max_scan_bytes in which the
\* magic does not occur, the resync reader returns the payload of the frame
\* that follows, and reports exactly the garbage as discarded.
ResyncFindsFrameAfterNoise ==
    (/\ call.op = "resync"
     /\ Len(call.args.garbage) <= call.args.max_scan_bytes
     /\ ~HasMagic(call.args.garbage)) =>
        /\ call.result.status = "ok"
        /\ call.result.payload = call.args.payload
        /\ call.result.discarded_bytes = Len(call.args.garbage)

\* C18's case: garbage as long as the budget, ending in three bytes of the
\* magic, has been skipped and the payload returned.
ResyncFindsFrameAfterNoiseWitness ==
    /\ call.op = "resync"
    /\ call.args.garbage = <<49, 83, 67, 66>>
    /\ call.args.max_scan_bytes = 4
    /\ call.args.payload = <<7, 1>>
    /\ call.result.status = "ok"
    /\ call.result.payload = <<7, 1>>

\* The bytes of the stream before the first occurrence of the magic.
BeforeFirstMagic(bs) ==
    (CHOOSE i \in 1..Len(bs) : MagicAt(bs, i) /\ \A j \in 1..(i - 1) : ~MagicAt(bs, j)) - 1

\* The stream of a resync call.
ResyncStream == call.args.garbage \o write_frame_payload(call.args.payload)

\* C19 as claimed: a successful resync never reports more than max_scan_bytes
\* discarded, and a stream with more than max_scan_bytes before its first
\* magic fails with MagicNotFound.
ResyncWithinBudget ==
    call.op = "resync" =>
        /\ call.result.status = "ok"
             => call.result.discarded_bytes <= call.args.max_scan_bytes
        /\ BeforeFirstMagic(ResyncStream) > call.args.max_scan_bytes
             => call.result.status = "MagicNotFound"

\* C19, amended: a successful resync never reports more than
\* max_scan_bytes + 1 discarded, and a stream with more than
\* max_scan_bytes + 1 bytes before its first magic fails with MagicNotFound.
ResyncWithinBudgetPlusOne ==
    call.op = "resync" =>
        /\ call.result.status = "ok"
             => call.result.discarded_bytes <= call.args.max_scan_bytes + 1
        /\ BeforeFirstMagic(ResyncStream) > call.args.max_scan_bytes + 1
             => call.result.status = "MagicNotFound"

\* C19's case: a frame found behind max_scan_bytes + 1 bytes of garbage.
ResyncWithinBudgetPlusOneWitness ==
    /\ call.op = "resync"
    /\ call.args.max_scan_bytes = 2
    /\ Len(call.args.garbage) = 3
    /\ call.result.status = "ok"
    /\ call.result.discarded_bytes = 3

\* C20: a Request and a Response decode, from their encoding, to themselves,
\* and the encoding without its last byte does not decode.
CodecRoundTrip ==
    /\ call.op = "request_codec" =>
          /\ call.result.decoded.ok
          /\ call.result.decoded.val = call.args.request
          /\ ~call.result.cut.ok
    /\ call.op = "response_codec" =>
          /\ call.result.decoded.ok
          /\ call.result.decoded.val = call.args.response
          /\ ~call.result.cut.ok

\* C20's case: a Set with a wide id and a negative timestamp has made the
\* round trip.
CodecRoundTripWitness ==
    /\ call.op = "request_codec"
    /\ call.args.request.kind = "Set"
    /\ call.args.request.request_id = 65536
    /\ call.args.request.value.created_at = -65
    /\ call.result.decoded.val = call.args.request

(***************************************************************************)
(* The daemon's answers to a request frame that cannot be read.            *)
(***************************************************************************)
\* What the handler's one call of read_frame_payload returned, from the bytes
\* its peer wrote.
ReadOutcome(c) == read_frame_payload(conns[c].inbuf, conns[c].eof, MaxSize)

\* The handler's read of the request frame has failed (it did not time out).
ReadFailed(c) ==
    /\ conns[c].sent
    /\ conns[c].nreads = 1
    /\ ReadOutcome(c).status \notin {"ok", "pending"}

\* The error code the protocol gives to a failed read.
FramingErrorCode(status) ==
    CASE status \in {"InvalidMagic", "MagicNotFound"} -> "invalid_request"
      [] status = "UnsupportedVersion" -> "version_mismatch"
      [] status = "PayloadTooLarge" -> "payload_too_large"
      [] OTHER -> "internal"

\* C21: when reading the request frame fails, the handler's response is an
\* Error whose code is invalid_request for InvalidMagic and MagicNotFound,
\* version_mismatch for UnsupportedVersion, payload_too_large for
\* PayloadTooLarge and internal for any other read error; the handler then
\* only writes that response, once, and the connection is closed: nothing is
\* dispatched and nothing more is read.
FramingErrorAnswered ==
    /\ \A status \in {"InvalidMagic", "MagicNotFound", "UnsupportedVersion",
                      "PayloadTooLarge", "io"} :
           LET r == framing_error_response(status, 3, 0)
           IN /\ r.kind.tag = "Error"
              /\ r.kind.code = FramingErrorCode(status)
    /\ \A c \in ConnIds :
           ReadFailed(c) =>
               /\ ErrorResponse(c, FramingErrorCode(ReadOutcome(c).status))
               /\ conns[c].pc \in {"write_err", "closed"}
               /\ ~conns[c].framed
               /\ conns[c].pc = "closed" =>
                      /\ conns[c].nwrites = 1
                      /\ conns[c].result = "Ok"
                      /\ Len(conns[c].out) <= 1

\* A frame of another version has been answered version_mismatch on a
\* connection that is now closed.
FramingErrorAnsweredWitness ==
    \E c \in ConnIds :
        /\ ReadFailed(c)
        /\ ReadOutcome(c).status = "UnsupportedVersion"
        /\ conns[c].pc = "closed"
        /\ conns[c].out = <<ResponseFrame(conns[c].response)>>
        /\ ErrorResponse(c, "version_mismatch")

(***************************************************************************)
(* The order of the checks of a Set.                                       *)
(***************************************************************************)
Whitelisted(value) == value.content_type \in {CONTENT_TYPE_TEXT, CONTENT_TYPE_PNG}

\* C22: Set validation reports the first failing check in the order content
\* type, size, UTF-8: a value of a content type off the whitelist is answered
\* invalid_request "invalid content type" even if it is also oversize, an
\* oversize value of a whitelisted type is answered payload_too_large even if
\* it is text that is not UTF-8, text within the size that is not UTF-8 is
\* answered invalid_utf8, and every other value is stored and answered Ok.
SetValidationOrder ==
    call.op = "set" =>
        LET v == call.args.value
            max_size == call.args.max_size
            kind == call.result.kind
        IN /\ ~Whitelisted(v) =>
                  /\ kind = KindError("invalid_request", MSG_INVALID_CONTENT_TYPE)
                  /\ call.result.state = None
           /\ Whitelisted(v) /\ Len(v.data) > max_size =>
                  /\ kind = KindError("payload_too_large", MSG_PAYLOAD_TOO_LARGE)
                  /\ call.result.state = None
           /\ Whitelisted(v) /\ Len(v.data) <= max_size
              /\ v.content_type = CONTENT_TYPE_TEXT /\ ~Utf8Valid(v.data) =>
                  /\ kind = KindError("invalid_utf8", MSG_INVALID_UTF8)
                  /\ call.result.state = None
           /\ Whitelisted(v) /\ Len(v.data) <= max_size
              /\ (v.content_type = CONTENT_TYPE_TEXT => Utf8Valid(v.data)) =>
                  /\ kind = KindOk
                  /\ call.result.state = Some(v)

\* An oversize text value that is not UTF-8 has been answered payload_too_large.
SetValidationOrderWitness ==
    /\ call.op = "set"
    /\ call.args.value.content_type = CONTENT_TYPE_TEXT
    /\ Len(call.args.value.data) > call.args.max_size
    /\ ~Utf8Valid(call.args.value.data)
    /\ call.result.kind.code = "payload_too_large"

(***************************************************************************)
(* The start of the daemon.                                                *)
(***************************************************************************)
\* The calls of a start in which something was removed, and of one in which
\* nothing was.
StartStepsRemoving ==
    <<"create_dir_all", "set_permissions_parent", "remove_file", "umask", "bind",
      "umask_restore", "set_permissions_socket">>
StartStepsPlain ==
    <<"create_dir_all", "set_permissions_parent", "umask", "bind",
      "umask_restore", "set_permissions_socket">>

IsPrefix(s, t) == Len(s) <= Len(t) /\ s = SubSeq(t, 1, Len(s))

Called(step) == \E i \in 1..Len(start.steps) : start.steps[i] = step

\* The order of the steps; the umask during and after the bind; the modes when
\* connections are accepted.
StartOrder ==
    /\ IsPrefix(start.steps, StartStepsRemoving) \/ IsPrefix(start.steps, StartStepsPlain)
    /\ start.pc = "bind" => start.umask = Umask0077 /\ start.dir_mode = Mode0700
    /\ Called("umask_restore") => start.umask = start.old_umask
    /\ Called("bind") /\ start.pc = "failed" => Called("umask_restore")
    /\ start.listener = "ok" => start.sock_mode \subseteq Mode0700
    /\ accepted > 0 =>
           /\ start.sock_mode = Mode0600
           /\ start.dir_mode = Mode0700
           /\ start.umask = start.old_umask
           /\ start.steps \in {StartStepsRemoving, StartStepsPlain}

\* When bind is called nothing is at the socket path.
NothingAtPathAtBind == start.pc = "bind" => start.entry = "none"

\* C23, as stated: daemon start performs its steps in the order create parent
\* directory with mode 0700, remove any file at the socket path, bind under
\* umask 0077, restore the previous umask (also when bind fails), chmod the
\* socket to 0600, and only then accept; no connection is accepted before the
\* socket has mode 0600.
StartOrderRemovingAnyFile == StartOrder /\ NothingAtPathAtBind

\* C23, amended: the same order, where the file at the socket path is removed
\* when Path::exists reports one.  A symbolic link to nothing is left where it
\* is; bind then fails, the umask is restored and nothing is accepted.
StartOrderRemovingExisting ==
    /\ StartOrder
    /\ start.pc = "bind" => start.entry \in {"none", "dangling_symlink"}
    /\ start.pc = "bind" /\ start.entry = "dangling_symlink" => ~Called("remove_file")
    /\ start.listener = "ok" => start.entry = "socket"
    /\ accepted > 0 => start.listener = "ok"

\* A daemon started under umask 0022 where the socket of an earlier daemon
\* was has accepted a connection.
StartOrderRemovingExistingWitness ==
    /\ accepted > 0
    /\ start.steps = StartStepsRemoving
    /\ start.old_umask = {"gw", "ow"}
    /\ start.sock_mode = Mode0600

(***************************************************************************)
(* The daemon's answer to a peer that sends no whole frame in time.        *)
(***************************************************************************)
\* The handler's read of the request frame has timed out: it has returned,
\* and the peer had written nothing, or less than a frame.
ReadTimedOut(c) ==
    /\ conns[c].nreads = 1
    /\ ~conns[c].sent \/ ReadOutcome(c).status = "pending"

\* C24: when a connected peer sends no complete request frame within
\* io_timeout_ms, the daemon's response is Error with code internal, message
\* "read timeout" and request_id 0; the handler writes it once and closes the
\* connection, and no step of that handler changes the stored value.
ReadTimeoutAnswered ==
    /\ [](\A c \in ConnIds :
            ReadTimedOut(c) =>
                /\ conns[c].response = Response(0, KindError("internal", MSG_READ_TIMEOUT))
                /\ conns[c].pc \in {"write_err", "closed"}
                /\ ~conns[c].framed
                /\ conns[c].setVer = 0
                /\ conns[c].pc = "closed" =>
                       /\ conns[c].nwrites = 1
                       /\ conns[c].result = "Ok"
                       /\ conns[c].out \in {<<>>, <<ResponseFrame(conns[c].response)>>})
    /\ [][\A c \in ConnIds :
            (conns[c].pc \in {"read", "write_err"} /\ conns'[c] # conns[c]
             /\ conns'[c].nreads = 1
             /\ (~conns'[c].sent
                 \/ read_frame_payload(conns'[c].inbuf, conns'[c].eof, MaxSize).status
                        = "pending"))
            => (store' = store /\ setLog' = setLog)]_vars

\* A peer that wrote part of a frame and went silent has received the timeout
\* response, while a value is stored.
ReadTimeoutAnsweredWitness ==
    \E c \in ConnIds :
        /\ ReadTimedOut(c)
        /\ conns[c].sent
        /\ conns[c].pc = "closed"
        /\ conns[c].out = <<ResponseFrame(Response(0, KindError("internal", MSG_READ_TIMEOUT)))>>
        /\ store # None

(***************************************************************************)
(* Get and PeekMeta on the same value.                                     *)
(***************************************************************************)
\* The handler of c has answered the request of the given kind that its peer
\* sent.
Handled(c, kind) ==
    /\ conns[c].pc \in {"write", "closed"}
    /\ conns[c].framed
    /\ SentRequest(c).ok
    /\ SentRequest(c).val.kind = kind

\* What was stored when the handler of c was in handle_request: the value of
\* the latest Set that had taken effect, if any.
StoredAt(c) ==
    IF conns[c].readVer = 0 THEN None ELSE Some(setLog[conns[c].readVer])

\* The handler of c takes its step of handle_request, for the given kind.
HandleStep(c, kind) ==
    /\ conns[c].pc = "handle"
    /\ conns'[c].pc = "write"
    /\ SentRequest(c).ok
    /\ SentRequest(c).val.kind = kind

\* C25: PeekMeta and Get agree on the stored value.  With v stored, Get
\* returns Value{v} and PeekMeta returns Meta{content_type = v.content_type,
\* size = v.data.len(), created_at = v.created_at}; both return Empty exactly
\* when nothing is stored; a Get and a PeekMeta with no Set taking effect in
\* between describe the same value; neither changes the stored value.
PeekMetaGetAgree ==
    /\ [](\A c \in ConnIds :
            /\ Handled(c, "Get") =>
                   /\ conns[c].response.kind.tag = "Empty" <=> ~StoredAt(c).some
                   /\ StoredAt(c).some =>
                          /\ conns[c].response.kind.tag = "Value"
                          /\ conns[c].response.kind.value = StoredAt(c).value
            /\ Handled(c, "PeekMeta") =>
                   /\ conns[c].response.kind.tag = "Empty" <=> ~StoredAt(c).some
                   /\ StoredAt(c).some =>
                          /\ conns[c].response.kind.tag = "Meta"
                          /\ conns[c].response.kind.value.content_type
                               = StoredAt(c).value.content_type
                          /\ conns[c].response.kind.size = Len(StoredAt(c).value.data)
                          /\ conns[c].response.kind.value.created_at
                               = StoredAt(c).value.created_at)
    /\ [](\A c, d \in ConnIds :
            (/\ Handled(c, "Get") /\ Handled(d, "PeekMeta")
             /\ conns[c].readVer = conns[d].readVer
             /\ conns[c].response.kind.tag = "Value")
            => /\ conns[d].response.kind.tag = "Meta"
               /\ conns[d].response.kind.size = Len(conns[c].response.kind.value.data)
               /\ conns[d].response.kind.value.content_type
                    = conns[c].response.kind.value.content_type)
    /\ [][\A c \in ConnIds :
            HandleStep(c, "Get") \/ HandleStep(c, "PeekMeta") =>
                /\ store' = store
                /\ setLog' = setLog
                /\ store = (IF Len(setLog) = 0 THEN None ELSE Some(setLog[Len(setLog)]))
                /\ conns'[c].readVer = Len(setLog)]_vars

\* A two-byte text is stored; a Get has returned it and a PeekMeta has
\* returned its description, with no Set taking effect in between.
PeekMetaGetAgreeWitness ==
    \E c, d \in ConnIds :
        /\ Handled(c, "Get") /\ Handled(d, "PeekMeta")
        /\ conns[c].readVer = conns[d].readVer
        /\ conns[c].response.kind.tag = "Value"
        /\ Len(conns[c].response.kind.value.data) = 2
        /\ conns[d].response.kind.tag = "Meta"
        /\ conns[d].response.kind.size = 2

(***************************************************************************)
(* The default socket path.                                                *)
(***************************************************************************)
\* "$dir/name/daemon.sock", as text.
Expanded(dir, name) == dir \o <<47>> \o name \o <<47>> \o DAEMON_SOCK

\* The same path with a run of separators written as one.
SamePath(p, q) ==
    LET squeeze(bs) == SelectSeq([i \in 1..Len(bs) |->
                                     IF bs[i] = 47 /\ i > 1 /\ bs[i - 1] = 47 THEN 0
                                     ELSE bs[i]],
                                 LAMBDA b : b # 0)
    IN squeeze(p) = squeeze(q)

UidDir(uid) == SSH_CLIPBOARD \o <<45>> \o DecimalBytes(uid)

\* C26, as stated: default_socket_path chooses
\* $XDG_RUNTIME_DIR/ssh_clipboard/daemon.sock whenever XDG_RUNTIME_DIR is set,
\* otherwise $TMPDIR/ssh_clipboard-<uid>/daemon.sock whenever TMPDIR is set,
\* otherwise /tmp/ssh_clipboard-<uid>/daemon.sock.
SocketPathWhenSet ==
    call.op = "default_socket_path" =>
        LET x == call.args.xdg_runtime_dir
            t == call.args.tmpdir
            uid == call.args.uid
        IN SamePath(call.result,
                    IF x.set THEN Expanded(x.bytes, SSH_CLIPBOARD)
                    ELSE IF t.set THEN Expanded(t.bytes, UidDir(uid))
                    ELSE Expanded(<<47, 116, 109, 112>>, UidDir(uid)))

\* The variable can be used: it is set, to Unicode text that is not empty.
Usable(v) == v.set /\ Utf8Valid(v.bytes) /\ v.bytes # <<>>

\* C26, amended: default_socket_path chooses the path under XDG_RUNTIME_DIR
\* whenever that variable is set to Unicode text, otherwise the path under
\* TMPDIR whenever that one is set to Unicode text, otherwise the path under
\* /tmp; a variable whose value is not Unicode counts as not set, and a
\* variable set to the empty string is chosen and gives the relative path
\* ssh_clipboard/daemon.sock or ssh_clipboard-<uid>/daemon.sock.
SocketPathWhenUnicode ==
    call.op = "default_socket_path" =>
        LET x == call.args.xdg_runtime_dir
            t == call.args.tmpdir
            uid == call.args.uid
            unicode(v) == v.set /\ Utf8Valid(v.bytes)
        IN /\ Usable(x) => SamePath(call.result, Expanded(x.bytes, SSH_CLIPBOARD))
           /\ unicode(x) /\ x.bytes = <<>> =>
                  call.result = SSH_CLIPBOARD \o <<47>> \o DAEMON_SOCK
           /\ ~unicode(x) /\ Usable(t) =>
                  SamePath(call.result, Expanded(t.bytes, UidDir(uid)))
           /\ ~unicode(x) /\ unicode(t) /\ t.bytes = <<>> =>
                  call.result = UidDir(uid) \o <<47>> \o DAEMON_SOCK
           /\ ~unicode(x) /\ ~unicode(t) =>
                  call.result = Expanded(<<47, 116, 109, 112>>, UidDir(uid))

\* XDG_RUNTIME_DIR is not set and TMPDIR is "/t/": the path is under TMPDIR,
\* with the uid in it.
SocketPathWhenUnicodeWitness ==
    /\ call.op = "default_socket_path"
    /\ ~call.args.xdg_runtime_dir.set
    /\ call.args.tmpdir.bytes = <<47, 116, 47>>
    /\ call.args.uid = DaemonUid
    /\ call.result = <<47, 116, 47>> \o UidDir(DaemonUid) \o <<47>> \o DAEMON_SOCK

(***************************************************************************)
(* The order of the checks of the strict frame reader.                     *)
(***************************************************************************)
\* C27: in strict mode the frame reader reports the first failing check in
\* the order magic, version, length.  A stream whose first 4 bytes are not
\* "SCB1" fails with InvalidMagic whatever follows, after 4 bytes; the magic
\* with a version other than 2 fails with UnsupportedVersion(v) whatever the
\* length field is, after 6 bytes; and only a stream with the magic and the
\* version has its length compared with max_size.
StrictCheckOrder ==
    call.op = "read_strict" =>
        LET bs == call.args.bytes
            r == call.result
            magic == Len(bs) >= 4 /\ SubSeq(bs, 1, 4) = MAGIC
            v == FromLeBytes(SubSeq(bs, 5, 6))
            len == FromLeBytes(SubSeq(bs, 7, 10))
        IN /\ Len(bs) >= 4 /\ ~magic =>
                  r.status = "InvalidMagic" /\ r.consumed = 4
           /\ magic /\ Len(bs) >= 6 /\ v # VERSION =>
                  r.status = "UnsupportedVersion" /\ r.arg = v /\ r.consumed = 6
           /\ magic /\ Len(bs) >= 10 /\ v = VERSION /\ len > call.args.max_size =>
                  r.status = "PayloadTooLarge" /\ r.arg = len /\ r.consumed = 10
           /\ r.status = "UnsupportedVersion" => magic
           /\ r.status = "PayloadTooLarge" => magic /\ v = VERSION
           /\ r.status = "ok" =>
                  magic /\ v = VERSION /\ len <= call.args.max_size /\ r.payload = Rep(7, len)

\* The magic, version 3 and a length over max_size: the version is reported.
StrictCheckOrderWitness ==
    /\ call.op = "read_strict"
    /\ Len(call.args.bytes) >= 10
    /\ SubSeq(call.args.bytes, 1, 4) = MAGIC
    /\ FromLeBytes(SubSeq(call.args.bytes, 5, 6)) = VERSION + 1
    /\ FromLeBytes(SubSeq(call.args.bytes, 7, 10)) > call.args.max_size
    /\ call.result.status = "UnsupportedVersion"
    /\ call.result.arg = VERSION + 1

(***************************************************************************)
(* What the handler has read when it writes.                               *)
(***************************************************************************)
\* The frame at the head of what the peer of c wrote, when those bytes begin
\* with the magic and the version: its length with the header, from its
\* length field, and whether the peer wrote all of it.
AnnouncedFrame(c) ==
    LET bs == conns[c].inbuf
        header == /\ conns[c].sent
                  /\ Len(bs) >= 10
                  /\ SubSeq(bs, 1, 4) = MAGIC
                  /\ FromLeBytes(SubSeq(bs, 5, 6)) = VERSION
        length == IF header THEN 10 + FromLeBytes(SubSeq(bs, 7, 10)) ELSE 0
    IN [header |-> header, length |-> length, whole |-> header /\ Len(bs) >= length]

\* The bytes the handler of c has taken from its socket.
Consumed(c) == IF conns[c].nreads = 0 THEN 0 ELSE ReadOutcome(c).consumed

\* C28: within a single daemon connection, the response frame is written only
\* after the request frame (header and all payload bytes announced by its
\* length field) has been fully consumed, on every path including the error
\* responses.
ResponseAfterWholeFrame ==
    \A c \in ConnIds :
        conns[c].nwrites = 1 /\ AnnouncedFrame(c).whole
        => Consumed(c) = AnnouncedFrame(c).length

(***************************************************************************)
(* The store's mutex and socket I/O.                                       *)
(***************************************************************************)
\* The positions at which a handler reads from or writes to its socket.
SocketIo == {"read", "write_err", "write"}

\* C29: no daemon connection handler holds the store lock while it reads from
\* or writes to its socket.  The lock is held only inside handle_request; its
\* holder can always finish handle_request without waiting for anything; so a
\* handler that has a request to handle can take its step, or take the lock,
\* or the holder of the lock can release it, whatever the other connections
\* are stalled in.
LockNotHeldAcrossIo ==
    /\ lock \in {0} \cup ConnIds
    /\ \A c \in ConnIds :
           /\ conns[c].pc \in SocketIo \cup {"free", "verify", "closed"} => lock # c
           /\ lock = c =>
                  /\ conns[c].pc = "handle"
                  /\ NeedsLock(conns[c].payload)
                  /\ ENABLED HandleRequest(c)
           /\ conns[c].pc = "handle" =>
                  \/ ENABLED HandleRequest(c)
                  \/ ENABLED LockStore(c)
                  \/ \E d \in ConnIds \ {c} : lock = d /\ ENABLED HandleRequest(d)

\* One handler holds the lock while another is in the write of its response.
LockNotHeldAcrossIoWitness ==
    \E c, d \in ConnIds :
        /\ lock = c
        /\ conns[c].pc = "handle"
        /\ conns[d].pc = "write"
        /\ store # None

(***************************************************************************)
(* Termination.                                                            *)
(***************************************************************************)
\* C30: every blocking step of the proxy (stdin read, connect, frame write
\* and read, stdout write) is guarded by the io timeout, so every proxy run
\* terminates whatever the peer does, including a peer that never sends or
\* never reads.
ProxyRunTerminates == <>(proxy.pc = "exited")

(***************************************************************************)
(* C31: a handler that ends in an error is isolated.                       *)
(***************************************************************************)
\* The handler in slot d can take its next step, or it waits for the mutex
\* and the handler that holds the mutex can take its own.
CanProceed(d) ==
    CASE conns[d].pc = "verify" -> ENABLED VerifyPeer(d)
      [] conns[d].pc = "read" -> ENABLED (ReadFrame(d) \/ ReadTimeout(d))
      [] conns[d].pc = "handle" ->
            \/ ENABLED (LockStore(d) \/ HandleRequest(d))
            \/ /\ lock \in ConnIds \ {d}
               /\ conns[lock].pc = "handle"
               /\ ENABLED HandleRequest(lock)
      [] conns[d].pc = "write" -> ENABLED WriteResponse(d, "ok")
      [] conns[d].pc = "write_err" -> ENABLED WriteErrorResponse(d, TRUE)
      [] OTHER -> TRUE

FramePayload(bs) == SubSeq(bs, 11, 10 + FromLeBytes(SubSeq(bs, 7, 10)))

\* C32: the frame the proxy wrote to the daemon carries the payload of the
\* frame that came on stdin, and a run that got a response frame from the
\* daemon and wrote it out wrote one frame to stdout that carries the payload
\* of the daemon's frame, whether or not that payload decodes as a Response.
ProxyForwardsUnchanged ==
    /\ proxy.to_daemon # <<>> =>
          /\ Len(proxy.to_daemon) >= 10
          /\ FramePayload(proxy.to_daemon) = FramePayload(proxy.stdin)
    /\ proxy.pc = "exited" /\ proxy.failed = "" /\ proxy.connect_error = "" =>
          /\ Len(proxy.stdout) = 1
          /\ Len(proxy.stdout[1]) >= 10
          /\ FramePayload(proxy.stdout[1]) = FramePayload(proxy.from_daemon)

\* The daemon answered with a payload that is no Response, and the run has
\* written it to stdout after forwarding a Set.
ProxyForwardsUnchangedWitness ==
    /\ proxy.pc = "exited"
    /\ proxy.failed = ""
    /\ decode_request(FramePayload(proxy.stdin)).ok
    /\ decode_request(FramePayload(proxy.stdin)).val.kind = "Set"
    /\ proxy.to_daemon # <<>>
    /\ proxy.from_daemon = write_frame_payload(<<7, 9>>)
    /\ ~decode_response(FramePayload(proxy.from_daemon)).ok
    /\ Len(proxy.stdout) = 1
    /\ proxy.exit_code = EXIT_INTERNAL

(***************************************************************************)
(* C33: a response of the daemon fits the proxy's bound.                   *)
(***************************************************************************)
\* C33: with the same max_size on both sides, the proxy's read of the
\* response to a Get, whatever value the daemon stored, does not fail with
\* PayloadTooLarge.
ResponseFitsProxyBound ==
    call.op = "proxy_response" => call.result.status # "PayloadTooLarge"

SpawnAtMostOnce ==
    /\ [](/\ proxy.spawn_calls <= 1
          /\ proxy.spawns <= proxy.spawn_calls
          /\ ~proxy.autostart =>
                /\ proxy.spawn_calls = 0
                /\ proxy.attempts <= 1
                /\ proxy.pc \notin {"read_stdin", "connect"} /\ proxy.failed # "read_stdin"
                      => proxy.attempts = 1)
    /\ [][~proxy.autostart /\ proxy.pc = "connect" =>
             \/ proxy'.pc = "write_request"
             \/ /\ proxy'.pc = "write_connect_error"
                /\ proxy'.connect_error = IF proxy'.timeouts = 1 THEN "Timeout" ELSE "Failed"]_vars

\* Without autostart the only connect timed out, and the run reported it.
SpawnAtMostOnceWitness ==
    /\ ~proxy.autostart
    /\ proxy.pc = "exited"
    /\ proxy.connect_error = "Timeout"
    /\ proxy.attempts = 1
    /\ proxy.spawn_calls = 0
    /\ proxy.exit_code = EXIT_DAEMON_NOT_RUNNING
    /\ Len(proxy.stdout) = 1

(***************************************************************************)
(* C36: the socket file of a listening daemon.                             *)
(***************************************************************************)
\* C36: a daemon that has acknowledged a Set and is in its accept loop is
\* the daemon whose socket file is at the socket path: no start of another
\* daemon has removed that file.
AckedDaemonStaysReachable ==
    \A d \in DaemonIds :
        fleet.daemons[d].acked /\ fleet.daemons[d].pc = "accept" => fleet.path = d

(***************************************************************************)
(* C37: send_request and a request longer than max_size.                   *)
(***************************************************************************)
\* C37: send_request on a request whose encoding is longer than the
\* effective max size (max_size, or 10 MiB where max_size is 0) returns an
\* Error response with code payload_too_large and the request's request_id
\* and has not called spawn_ssh_proxy; on any other request it goes on to
\* spawn ssh.
SendRequestRefusesOversize ==
    call.op = "send_request" =>
        LET effective == IF call.args.max_size = 0 THEN 10 * 1024 * 1024
                         ELSE call.args.max_size
        IN IF call.args.payload_len > effective
             THEN /\ ~call.result.ssh
                  /\ call.result.response.request_id = call.args.request.request_id
                  /\ call.result.response.kind.tag = "Error"
                  /\ call.result.response.kind.code = "payload_too_large"
           ELSE call.result.ssh

\* With max_size 0, a request of more than 10 MiB and a request_id of three
\* bytes was refused.
SendRequestRefusesOversizeWitness ==
    /\ call.op = "send_request"
    /\ call.args.max_size = 0
    /\ call.args.payload_len > 10 * 1024 * 1024
    /\ call.args.request.request_id = 65535
    /\ ~call.result.ssh
    /\ call.result.response.request_id = 65535
    /\ call.result.response.kind.code = "payload_too_large"

(***************************************************************************)
(* C38, C39: the agent's running flag.                                     *)
(***************************************************************************)
\* The operations whose future is running.
InFlight == {t \in DOMAIN agent.tasks : agent.tasks[t].pc = "future"}

\* The event loop handles a trigger in this step.
TriggerHandled ==
    /\ agent.queue # <<>>
    /\ Head(agent.queue).kind = "Trigger"
    /\ agent'.handled = agent.handled + 1

\* C38: at most one operation is in flight, and a trigger that the event
\* loop handles while an operation is in flight spawns nothing and sends
\* OperationErr "already running" with the name of the trigger.
OneOperationInFlight ==
    /\ [](Cardinality(InFlight) <= 1)
    /\ [][TriggerHandled /\ InFlight # {} =>
             /\ agent'.tasks = agent.tasks
             /\ agent'.queue = Append(Tail(agent.queue),
                                      OperationErr(Head(agent.queue).name,
                                                   "already running", 0))]_vars

\* A pull from the hotkey was refused while a push from the menu was in
\* flight, and the event loop has the refusal in its queue.
OneOperationInFlightWitness ==
    /\ Len(agent.tasks) = 1
    /\ agent.tasks[1].name = "push"
    /\ agent.tasks[1].pc = "future"
    /\ agent.handled = 2
    /\ agent.queue = <<OperationErr("pull", "already running", 0)>>

\* C39: a task sends its completion event only after it has cleared the
\* flag; the flag is set only while an operation has not yet run
\* running.store(false); and a trigger handled when every operation spawned
\* so far has had its completion event delivered spawns a new operation.
RunningClearedBeforeCompletion ==
    /\ [](/\ \A i \in 1..Len(agent.queue) :
                agent.queue[i].task # 0 => agent.tasks[agent.queue[i].task].cleared
          /\ \A t \in agent.delivered : agent.tasks[t].cleared
          /\ agent.running => \E t \in DOMAIN agent.tasks : ~agent.tasks[t].cleared)
    /\ [][TriggerHandled /\ agent.delivered = DOMAIN agent.tasks =>
             Len(agent'.tasks) = Len(agent.tasks) + 1]_vars

\* An operation failed, its OperationErr was delivered, and the next trigger
\* spawned a second operation.
RunningClearedBeforeCompletionWitness ==
    /\ Len(agent.tasks) = 2
    /\ agent.tasks[1].result = "Err"
    /\ agent.tasks[2].seen = {1}
    /\ agent.tasks[2].pc = "future"
    /\ agent.running

\* C40: setup-agent stores autostart_enabled = true only after the autostart
\* refresh of the run has succeeded; after a refresh that failed the stored
\* configuration has autostart_enabled = false; and a run with --dry-run
\* leaves the config file as it found it and runs no autostart action.
SetupStoresAfterRefresh ==
    /\ [](/\ setup.refresh = "failed" =>
                setup.file.exists /\ ~setup.file.config.autostart_enabled
          /\ setup.args.dry_run => setup.actions = <<>>)
    /\ [][/\ (setup'.file # setup.file /\ setup'.file.config.autostart_enabled) =>
                setup.refresh = "ok"
          /\ (setup.pc \notin {"idle", "done", "failed"} /\ setup.args.dry_run) =>
                setup'.file = setup.file]_vars

=============================================================================
